---- MODULE Spec2Model ----
(***************************************************************************)
(* A model of waha_python.client.WAHAClient: construction, the dispatch    *)
(* path request() -> requests.Session.request -> _handle_response(), the   *)
(* exception taxonomy of waha_python.exceptions, and the client's life      *)
(* cycle (close, __enter__, __exit__); and of the resource facades of     *)
(* waha_python.modules (BaseModule and its subclasses), whose methods come *)
(* to one call of the client, with Python's attribute lookup and argument  *)
(* binding deciding which method `self.get` is.                            *)
(*                                                                         *)
(* Python strings and byte strings are sequences of pieces (TLA+ strings   *)
(* cannot be cut or joined): "a" + "b" is <<"a">> \o <<"b">>, and          *)
(* `x in s` for a piece x is Contains(s, x).                               *)
(***************************************************************************)
EXTENDS Integers, Sequences, FiniteSets, TLC

VARIABLES
    base_url,     \* self.base_url: text
    api_key,      \* self.api_key: a Python value (None or a str)
    timeout,      \* self.timeout: a Python value
    _session,     \* self._session: the requests.Session (headers, pool)
    facades,      \* self.sessions, self.messages, ...: the facade objects
    scope,        \* where the caller's `with` statement stands
    unwinding,    \* an exception is propagating out of the `with` body
    released,     \* how many times __exit__ has run close()
    closeCalls,   \* how many times close() has run at all
    last          \* the latest call on the client and what it came to

vars == <<base_url, api_key, timeout, _session, facades, scope, unwinding,
          released, closeCalls, last>>

-----------------------------------------------------------------------------
(* Python values *)

PyNone == [py |-> "None"]
PyStr(s) == [py |-> "str", s |-> s]
PyInt(n) == [py |-> "int", n |-> n]

\* bool(v) for the values above
Truthy(v) ==
    CASE v.py = "None" -> FALSE
      [] v.py = "str" -> v.s # <<>>
      [] v.py = "int" -> v.n # 0
      [] v.py = "bool" -> v.b
      [] v.py = "list" -> v.items # <<>>
      [] v.py = "dict" -> v.items # <<>>

Range(s) == {s[i] : i \in DOMAIN s}

\* `piece in text`
Contains(text, piece) == piece \in Range(text)

\* `part in text` for a text part of several pieces
ContainsSeq(text, part) ==
    \E i \in 0..(Len(text) - Len(part)) :
        \A j \in 1..Len(part) : text[i + j] = part[j]

-----------------------------------------------------------------------------
(* JSON documents, as json.loads reads them. A body is a sequence of      *)
(* chunks of bytes; the lexical class of a chunk is read off these tables. *)

StringLiterals ==
    ("\"message\"" :> "message") @@ ("\"X\"" :> "X") @@ ("\"a\"" :> "a")

NumberLiterals == ("1" :> 1) @@ ("7" :> 7)

\* bytes that are not valid in any encoding json.loads accepts
BinaryChunks == {"\\xff\\xd8", "\\x00\\x89"}

JNull == [kind |-> "null"]
JString(s) == [kind |-> "string", s |-> s]
JNumber(n) == [kind |-> "number", n |-> n]
JArray(items) == [kind |-> "array", items |-> items]
JObject(members) == [kind |-> "object", members |-> members]

ParseFail == [ok |-> FALSE]
Parsed(v, next) == [ok |-> TRUE, val |-> v, next |-> next]

RECURSIVE ParseValue(_, _)
RECURSIVE ParseElements(_, _, _)
RECURSIVE ParseMembers(_, _, _)

\* the JSON value that starts at chunk i of body b
ParseValue(b, i) ==
    IF i > Len(b) THEN ParseFail
    ELSE IF b[i] \in DOMAIN StringLiterals
        THEN Parsed(JString(StringLiterals[b[i]]), i + 1)
    ELSE IF b[i] \in DOMAIN NumberLiterals
        THEN Parsed(JNumber(NumberLiterals[b[i]]), i + 1)
    ELSE IF b[i] = "null" THEN Parsed(JNull, i + 1)
    ELSE IF b[i] = "[" THEN
        IF i + 1 <= Len(b) /\ b[i + 1] = "]"
        THEN Parsed(JArray(<<>>), i + 2)
        ELSE ParseElements(b, i + 1, <<>>)
    ELSE IF b[i] = "{" THEN
        IF i + 1 <= Len(b) /\ b[i + 1] = "}"
        THEN Parsed(JObject(<<>>), i + 2)
        ELSE ParseMembers(b, i + 1, <<>>)
    ELSE ParseFail

\* value (, value)* ]
ParseElements(b, i, acc) ==
    LET v == ParseValue(b, i) IN
    IF ~v.ok \/ v.next > Len(b) THEN ParseFail
    ELSE IF b[v.next] = "]" THEN Parsed(JArray(Append(acc, v.val)), v.next + 1)
    ELSE IF b[v.next] = "," THEN ParseElements(b, v.next + 1, Append(acc, v.val))
    ELSE ParseFail

\* string : value (, string : value)* }   (a repeated key keeps the last value)
ParseMembers(b, i, acc) ==
    IF i + 1 > Len(b) \/ b[i] \notin DOMAIN StringLiterals \/ b[i + 1] # ":"
    THEN ParseFail
    ELSE
        LET key == StringLiterals[b[i]]
            v == ParseValue(b, i + 2)
        IN
        IF ~v.ok \/ v.next > Len(b) THEN ParseFail
        ELSE
            LET more == [k \in (DOMAIN acc) \cup {key} |->
                            IF k = key THEN v.val ELSE acc[k]]
            IN
            IF b[v.next] = "}" THEN Parsed(JObject(more), v.next + 1)
            ELSE IF b[v.next] = "," THEN ParseMembers(b, v.next + 1, more)
            ELSE ParseFail

\* json.loads(body): one value and nothing after it
JsonLoads(b) ==
    LET v == ParseValue(b, 1) IN
    IF v.ok /\ v.next = Len(b) + 1 THEN [ok |-> TRUE, val |-> v.val] ELSE ParseFail

\* str(v) of a parsed scalar, as an f-string renders it
Format(v) ==
    CASE v.kind = "string" -> <<v.s>>
      [] v.kind = "number" -> <<ToString(v.n)>>
      [] v.kind = "null" -> <<"None">>

\* response.text: the body decoded with errors="replace"
DecodeChunk(c) == IF c \in BinaryChunks THEN "\\ufffd" ELSE c

Decode(b) == [i \in DOMAIN b |-> DecodeChunk(b[i])]

-----------------------------------------------------------------------------
(* Outcomes of a call: it returns a value or raises an exception.          *)

Returns(v) == [variant |-> "Success", value |-> v]
Raises(cls, msg) == [variant |-> "Failure", kind |-> cls, message |-> msg]

JsonValue(v) == [type |-> "json", json |-> v]
BytesValue(b) == [type |-> "bytes", data |-> b]
TextValue(t) == [type |-> "text", data |-> t]
NoValue == [type |-> "None"]

\* WAHABases with WAHAServerError derived from Exception, not from the root
WAHABasesServerDetached ==
    ("WAHAClientError" :> {"Exception"}) @@
    ("WAHAAuthenticationError" :> {"WAHAClientError"}) @@
    ("WAHASessionError" :> {"WAHAClientError"}) @@
    ("WAHANotFoundError" :> {"WAHAClientError"}) @@
    ("WAHARateLimitError" :> {"WAHAClientError"}) @@
    ("WAHAServerError" :> {"Exception"})

\* waha_python/exceptions.py: the direct base of every class
WAHABases ==
    ("WAHAClientError" :> {"Exception"}) @@
    ("WAHAAuthenticationError" :> {"WAHAClientError"}) @@
    ("WAHASessionError" :> {"WAHAClientError"}) @@
    ("WAHANotFoundError" :> {"WAHAClientError"}) @@
    ("WAHARateLimitError" :> {"WAHAClientError"}) @@
    ("WAHAServerError" :> {"WAHAClientError"})

\* the classes of requests.exceptions and of the builtins that the except
\* clauses of request() and _handle_response() meet
LibraryBases ==
    ("Exception" :> {}) @@
    ("AttributeError" :> {"Exception"}) @@
    ("OSError" :> {"Exception"}) @@
    ("RequestException" :> {"OSError"}) @@
    ("Timeout" :> {"RequestException"}) @@
    ("ConnectionError" :> {"RequestException"}) @@
    ("ConnectTimeout" :> {"ConnectionError", "Timeout"}) @@
    ("ReadTimeout" :> {"Timeout"}) @@
    ("TooManyRedirects" :> {"RequestException"}) @@
    ("InvalidJSONError" :> {"RequestException"}) @@
    ("JSONDecodeError" :> {"InvalidJSONError"})

Bases == WAHABases @@ LibraryBases

RECURSIVE IsSubclass(_, _)
IsSubclass(c, d) == c = d \/ \E b \in Bases[c] : IsSubclass(b, d)

-----------------------------------------------------------------------------
(* WAHAClient._handle_response                                             *)

\* response.headers.get("Content-Type", "")
ContentTypeOf(response) ==
    IF "Content-Type" \in DOMAIN response.headers
    THEN response.headers["Content-Type"]
    ELSE <<>>

\* the body of both try blocks: error_data = response.json();
\* error_msg = error_data.get("message", error_msg). It ends with error_msg
\* set, or with an exception (JSONDecodeError from json(), AttributeError
\* from .get on a value that is no dict).
TryErrorData(response, error_msg) ==
    LET error_data == JsonLoads(response.content) IN
    IF ~error_data.ok THEN [raised |-> TRUE, cls |-> "JSONDecodeError"]
    ELSE IF error_data.val.kind # "object"
        THEN [raised |-> TRUE, cls |-> "AttributeError"]
    ELSE [raised |-> FALSE,
          error_msg |-> IF "message" \in DOMAIN error_data.val.members
                        THEN Format(error_data.val.members["message"])
                        ELSE error_msg]

\* f"{error_msg} (Status: {response.status_code})"
WithStatus(error_msg, response) ==
    error_msg \o <<" (Status: ", ToString(response.status_code), ")">>

AuthenticationFailure ==
    Raises("WAHAAuthenticationError",
           <<"Authentication failed. Please check your API key.">>)

\* NotFoundFailure with the URL left out of the message
NotFoundWithoutUrl(response) ==
    Raises("WAHANotFoundError", <<"Resource not found">>)

NotFoundFailure(response) ==
    Raises("WAHANotFoundError", <<"Resource not found: ">> \o response.url)

RateLimitFailure ==
    Raises("WAHARateLimitError", <<"Rate limit exceeded. Please try again later.">>)

\* ServerFailure that names the URL of the response in its message
ServerFailureNamesUrl(response) ==
    LET t == TryErrorData(response, <<"Server error">>)
        error_msg == IF t.raised THEN <<"Server error">> ELSE t.error_msg
    IN Raises("WAHAServerError",
              WithStatus(error_msg, response) \o <<" for ">> \o response.url)

\* ServerFailure whose except clause copies the body, as ClientFailure's does
ServerFailureCopiesBody(response) ==
    LET t == TryErrorData(response, <<"Server error">>)
        error_msg == IF t.raised THEN Decode(response.content) ELSE t.error_msg
    IN Raises("WAHAServerError", WithStatus(error_msg, response))

\* status_code >= 500: `except: pass` keeps the default message
ServerFailure(response) ==
    LET t == TryErrorData(response, <<"Server error">>)
        error_msg == IF t.raised THEN <<"Server error">> ELSE t.error_msg
    IN Raises("WAHAServerError", WithStatus(error_msg, response))

\* SuccessValue without the application/octet-stream test
SuccessValueImagesOnly(response) ==
    LET content_type == ContentTypeOf(response) IN
    IF Contains(content_type, "application/json") THEN
        LET doc == JsonLoads(response.content) IN
        IF doc.ok THEN Returns(JsonValue(doc.val))
        ELSE Raises("JSONDecodeError", <<"Expecting value">>)
    ELSE IF Contains(content_type, "image/")
        THEN Returns(BytesValue(response.content))
    ELSE Returns(TextValue(Decode(response.content)))

\* status_code in [200, 201, 204]: decoded by the declared content type;
\* response.json() raises requests.exceptions.JSONDecodeError on a body
\* that is no JSON document
SuccessValue(response) ==
    LET content_type == ContentTypeOf(response) IN
    IF Contains(content_type, "application/json") THEN
        LET doc == JsonLoads(response.content) IN
        IF doc.ok THEN Returns(JsonValue(doc.val))
        ELSE Raises("JSONDecodeError", <<"Expecting value">>)
    ELSE IF Contains(content_type, "image/")
            \/ Contains(content_type, "application/octet-stream")
        THEN Returns(BytesValue(response.content))
    ELSE Returns(TextValue(Decode(response.content)))

\* ClientFailure whose except clause keeps the default, as ServerFailure's does
ClientFailureKeepsDefault(response) ==
    LET t == TryErrorData(response, <<"Unknown error">>)
        error_msg == IF t.raised THEN <<"Unknown error">> ELSE t.error_msg
    IN Raises("WAHAClientError", WithStatus(error_msg, response))

\* any other status_code >= 400: `except: error_msg = response.text`
ClientFailure(response) ==
    LET t == TryErrorData(response, <<"Unknown error">>)
        error_msg == IF t.raised THEN Decode(response.content) ELSE t.error_msg
    IN Raises("WAHAClientError", WithStatus(error_msg, response))

SuccessStatuses == {200, 201, 204}

\* HandleResponse that decodes the body of every status below 400 by its
\* Content-Type
HandleResponseDecodesAll(response) ==
    IF response.status_code = 401 THEN AuthenticationFailure
    ELSE IF response.status_code = 404 THEN NotFoundFailure(response)
    ELSE IF response.status_code = 429 THEN RateLimitFailure
    ELSE IF response.status_code >= 500 THEN ServerFailure(response)
    ELSE IF response.status_code >= 400 THEN ClientFailure(response)
    ELSE SuccessValue(response)

\* HandleResponse without the branch for 429
HandleResponseNoRateLimit(response) ==
    IF response.status_code = 401 THEN AuthenticationFailure
    ELSE IF response.status_code = 404 THEN NotFoundFailure(response)
    ELSE IF response.status_code >= 500 THEN ServerFailure(response)
    ELSE IF response.status_code \in SuccessStatuses THEN SuccessValue(response)
    ELSE IF response.status_code >= 400 THEN ClientFailure(response)
    ELSE Returns(TextValue(Decode(response.content)))

HandleResponse(response) ==
    IF response.status_code = 401 THEN AuthenticationFailure
    ELSE IF response.status_code = 404 THEN NotFoundFailure(response)
    ELSE IF response.status_code = 429 THEN RateLimitFailure
    ELSE IF response.status_code >= 500 THEN ServerFailure(response)
    ELSE IF response.status_code \in SuccessStatuses THEN SuccessValue(response)
    ELSE IF response.status_code >= 400 THEN ClientFailure(response)
    ELSE Returns(TextValue(Decode(response.content)))

-----------------------------------------------------------------------------
(* WAHAClient.__init__ and _setup_session                                  *)

PyBool(b) == [py |-> "bool", b |-> b]
PyDict(items) == [py |-> "dict", items |-> items]   \* <<key, value>> pairs
PyList(items) == [py |-> "list", items |-> items]

DefaultTimeout == 30

\* the defaults of the constructor's parameters
DefaultArgs ==
    [base_url |-> <<"http://localhost:3000">>,
     api_key |-> PyNone,
     timeout |-> PyInt(DefaultTimeout)]

\* Rstrip that takes off one trailing "/" only
RstripOnce(text) ==
    IF text # <<>> /\ text[Len(text)] = "/"
    THEN SubSeq(text, 1, Len(text) - 1)
    ELSE text

RECURSIVE Rstrip(_)
\* base_url.rstrip("/")
Rstrip(text) ==
    IF text # <<>> /\ text[Len(text)] = "/"
    THEN Rstrip(SubSeq(text, 1, Len(text) - 1))
    ELSE text

\* requests.Session(): its own default headers and an empty connection pool
NewSession ==
    [headers |-> ("User-Agent" :> <<"python-requests">>) @@ ("Accept" :> <<"*/*">>),
     pool |-> {}]

\* SetupSession with the test `api_key is not None`
SetupSessionKeyNotNone(session, key) ==
    LET updated == ("Content-Type" :> <<"application/json">>) @@
                   ("Accept" :> <<"application/json">>) @@ session.headers
    IN [session EXCEPT !.headers =
            IF key.py # "None" THEN ("X-Api-Key" :> key.s) @@ updated ELSE updated]

\* headers.update({...}); headers["X-Api-Key"] = api_key if api_key is truthy
SetupSession(session, key) ==
    LET updated == ("Content-Type" :> <<"application/json">>) @@
                   ("Accept" :> <<"application/json">>) @@ session.headers
    IN [session EXCEPT !.headers =
            IF Truthy(key) THEN ("X-Api-Key" :> key.s) @@ updated ELSE updated]

\* the client object under construction, as the facades refer to it
Self == "WAHAClient#1"

\* the attribute each facade is stored under, and its class
FacadeClasses ==
    [sessions |-> "SessionsModule", messages |-> "MessagesModule",
     chats |-> "ChatsModule", contacts |-> "ContactsModule",
     groups |-> "GroupsModule", status |-> "StatusModule",
     profile |-> "ProfileModule", channels |-> "ChannelsModule"]

\* BaseModule.__init__(client): self.client = client
NewFacade(cls, client) == [cls |-> cls, client |-> client]

\* Construct that leaves out the status facade
ConstructWithoutStatus(args) ==
    /\ base_url = Rstrip(args.base_url)
    /\ api_key = args.api_key
    /\ timeout = args.timeout
    /\ _session = SetupSession(NewSession, args.api_key)
    /\ facades = [n \in DOMAIN FacadeClasses \ {"status"} |->
                     NewFacade(FacadeClasses[n], Self)]
    /\ scope = "outside"
    /\ unwinding = FALSE
    /\ released = 0
    /\ closeCalls = 0
    /\ last = [op |-> "__init__", args |-> args]

Construct(args) ==
    /\ base_url = Rstrip(args.base_url)
    /\ api_key = args.api_key
    /\ timeout = args.timeout
    /\ _session = SetupSession(NewSession, args.api_key)
    /\ facades = [n \in DOMAIN FacadeClasses |-> NewFacade(FacadeClasses[n], Self)]
    /\ scope = "outside"
    /\ unwinding = FALSE
    /\ released = 0
    /\ closeCalls = 0
    /\ last = [op |-> "__init__", args |-> args]

-----------------------------------------------------------------------------
(* WAHAClient.request                                                      *)

\* str(v) of a query value
QueryText(v) ==
    CASE v.py = "str" -> v.s
      [] v.py = "int" -> <<ToString(v.n)>>
      [] v.py = "bool" -> IF v.b THEN <<"True">> ELSE <<"False">>

RECURSIVE EncodeItems(_)
\* requests encodes the query k=v&k=v and leaves out the keys whose value is None
EncodeItems(items) ==
    IF items = <<>> THEN <<>>
    ELSE
        LET rest == EncodeItems(Tail(items))
            k == Head(items)[1]
            v == Head(items)[2]
        IN
        IF v.py = "None" THEN rest
        ELSE <<k, "=">> \o QueryText(v) \o (IF rest = <<>> THEN <<>> ELSE <<"&">> \o rest)

\* the URL requests prepares from url and params
PreparedUrl(url, params) ==
    LET query == IF params.py = "dict" THEN EncodeItems(params.items) ELSE <<>> IN
    IF query = <<>> THEN url ELSE url \o <<"?">> \o query

\* MergeHeaders in which the session's header wins over the call's
MergeHeadersDefaultsWin(defaults, kwargs) ==
    IF "headers" \in DOMAIN kwargs THEN defaults @@ kwargs.headers ELSE defaults

\* the session's headers with the call's headers laid over them
MergeHeaders(defaults, kwargs) ==
    IF "headers" \in DOMAIN kwargs THEN kwargs.headers @@ defaults ELSE defaults

\* Sent with self.timeout whatever the call passes
SentConfiguredTimeout(method, endpoint, params, json_data, kwargs) ==
    [method |-> method,
     url |-> base_url \o endpoint,
     params |-> params,
     json |-> json_data,
     timeout |-> timeout,
     headers |-> MergeHeaders(_session.headers, kwargs)]

\* the arguments self._session.request(...) is called with
Sent(method, endpoint, params, json_data, kwargs) ==
    [method |-> method,
     url |-> base_url \o endpoint,
     params |-> params,
     json |-> json_data,
     timeout |-> IF "timeout" \in DOMAIN kwargs THEN kwargs.timeout ELSE timeout,
     headers |-> MergeHeaders(_session.headers, kwargs)]

\* The Response object self._session.request returns for the server's reply.
\* allow_redirects is not passed, so requests follows redirects and
\* response.url is the URL of the last request it made.
Response(sent, reply) ==
    [status_code |-> reply.status_code,
     headers |-> reply.headers,
     content |-> reply.content,
     url |-> IF reply.redirected_to = <<>>
             THEN PreparedUrl(sent.url, sent.params)
             ELSE reply.redirected_to]

\* ExceptClauses without the clause for RequestException
ExceptClausesWithoutBase(e) ==
    IF IsSubclass(e.kind, "Timeout")
        THEN Raises("WAHAClientError", <<"Request timeout: ">> \o e.message)
    ELSE IF IsSubclass(e.kind, "ConnectionError")
        THEN Raises("WAHAClientError", <<"Connection error: ">> \o e.message)
    ELSE e

\* the three except clauses of request(), tried in order
ExceptClauses(e) ==
    IF IsSubclass(e.kind, "Timeout")
        THEN Raises("WAHAClientError", <<"Request timeout: ">> \o e.message)
    ELSE IF IsSubclass(e.kind, "ConnectionError")
        THEN Raises("WAHAClientError", <<"Connection error: ">> \o e.message)
    ELSE IF IsSubclass(e.kind, "RequestException")
        THEN Raises("WAHAClientError", <<"Request failed: ">> \o e.message)
    ELSE e

\* the try block: the transport raises or answers, the answer is classified
RequestOutcome(sent, reply) ==
    LET tried == IF reply.type = "raise"
                 THEN Raises(reply.cls, reply.text)
                 ELSE HandleResponse(Response(sent, reply))
    IN IF tried.variant = "Failure" THEN ExceptClauses(tried) ELSE tried

\* a reply leaves its connection in the session's pool (keep-alive)
Pooled(session, reply) ==
    IF reply.type = "response"
    THEN [session EXCEPT !.pool = @ \cup {base_url}]
    ELSE session

\* Attempts with a second try after a timeout
AttemptsRetryOnTimeout(sent, reply) ==
    IF reply.type = "raise" /\ IsSubclass(reply.cls, "Timeout")
    THEN <<sent, sent>>
    ELSE <<sent>>

\* the calls of self._session.request that one call of request() makes: the
\* try block holds one call, outside any loop, and no except clause calls again
Attempts(sent, reply) == <<sent>>

\* Request that refuses to dispatch once close() has run
RequestRejectsWhenClosed(method, endpoint, params, json_data, kwargs, reply) ==
    LET sent == Sent(method, endpoint, params, json_data, kwargs)
        closed == closeCalls > 0
        outcome == IF closed
                   THEN Raises("WAHAClientError", <<"Client is closed">>)
                   ELSE RequestOutcome(sent, reply)
    IN
    /\ ~unwinding
    /\ last' = [op |-> "request", endpoint |-> endpoint, kwargs |-> kwargs,
                sent |-> sent,
                wire |-> IF closed THEN <<>> ELSE Attempts(sent, reply),
                reply |-> reply,
                outcome |-> outcome]
    /\ _session' = IF closed THEN _session ELSE Pooled(_session, reply)
    /\ unwinding' \in IF scope = "inside" /\ outcome.variant = "Failure"
                      THEN BOOLEAN ELSE {FALSE}
    /\ UNCHANGED <<facades, base_url, api_key, timeout, scope, released, closeCalls>>

Request(method, endpoint, params, json_data, kwargs, reply) ==
    LET sent == Sent(method, endpoint, params, json_data, kwargs)
        outcome == RequestOutcome(sent, reply)
    IN
    /\ ~unwinding
    /\ last' = [op |-> "request", endpoint |-> endpoint, kwargs |-> kwargs,
                sent |-> sent,
                wire |-> Attempts(sent, reply), reply |-> reply,
                outcome |-> outcome]
    /\ _session' = Pooled(_session, reply)
    \* inside a `with` body the caller handles a raised error or lets it leave
    /\ unwinding' \in IF scope = "inside" /\ outcome.variant = "Failure"
                      THEN BOOLEAN ELSE {FALSE}
    /\ UNCHANGED <<facades, base_url, api_key, timeout, scope, released, closeCalls>>

-----------------------------------------------------------------------------
(* close, __enter__, __exit__                                              *)

MaxCloses == 3

\* requests.Session.close(): every adapter drops its pooled connections
SessionClose(session) == [session EXCEPT !.pool = {}]

\* close() that drops the session object: a second close() then raises
CloseDropsSession ==
    /\ ~unwinding
    /\ closeCalls < MaxCloses
    /\ _session' = SessionClose(_session)
    /\ closeCalls' = closeCalls + 1
    /\ last' = [op |-> "close",
                outcome |-> IF closeCalls > 0
                            THEN Raises("AttributeError", <<"'NoneType' object has no attribute 'close'">>)
                            ELSE Returns(NoValue)]
    /\ UNCHANGED <<facades, base_url, api_key, timeout, scope, unwinding, released>>

\* close() that also puts the session's headers back to the library's
CloseResetsHeaders ==
    /\ ~unwinding
    /\ closeCalls < MaxCloses
    /\ _session' = [SessionClose(_session) EXCEPT !.headers = NewSession.headers]
    /\ closeCalls' = closeCalls + 1
    /\ last' = [op |-> "close", outcome |-> Returns(NoValue)]
    /\ UNCHANGED <<facades, base_url, api_key, timeout, scope, unwinding, released>>

Close ==
    /\ ~unwinding
    /\ closeCalls < MaxCloses
    /\ _session' = SessionClose(_session)
    /\ closeCalls' = closeCalls + 1
    /\ last' = [op |-> "close", outcome |-> Returns(NoValue)]
    /\ UNCHANGED <<facades, base_url, api_key, timeout, scope, unwinding, released>>

Enter ==
    /\ scope = "outside"
    /\ scope' = "inside"
    /\ last' = [op |-> "__enter__", outcome |-> Returns(NoValue)]
    /\ UNCHANGED <<facades, base_url, api_key, timeout, _session, unwinding, released,
                   closeCalls>>

\* __exit__ that runs close() only when the body ended without an error
ExitClosesUnlessError ==
    /\ scope = "inside"
    /\ closeCalls < MaxCloses
    /\ scope' = "exited"
    /\ _session' = IF unwinding THEN _session ELSE SessionClose(_session)
    /\ closeCalls' = IF unwinding THEN closeCalls ELSE closeCalls + 1
    /\ released' = IF unwinding THEN released ELSE released + 1
    /\ unwinding' = FALSE
    /\ last' = [op |-> "__exit__",
                exc_type |-> IF unwinding THEN last.outcome.kind ELSE "None",
                outcome |-> Returns(NoValue)]
    /\ UNCHANGED <<facades, base_url, api_key, timeout>>

\* __exit__(exc_type, exc_val, exc_tb) runs close() and returns None, so an
\* exception that left the body goes on to the caller
Exit ==
    /\ scope = "inside"
    /\ closeCalls < MaxCloses
    /\ scope' = "exited"
    /\ _session' = SessionClose(_session)
    /\ closeCalls' = closeCalls + 1
    /\ released' = released + 1
    /\ unwinding' = FALSE
    /\ last' = [op |-> "__exit__",
                exc_type |-> IF unwinding THEN last.outcome.kind ELSE "None",
                outcome |-> Returns(NoValue)]
    /\ UNCHANGED <<facades, base_url, api_key, timeout>>

-----------------------------------------------------------------------------
(* BaseModule and the resource facades of waha_python.modules. A method   *)
(* body comes to one expression: `return self.<attr>(...)`, or a value.    *)

\* a call without keyword arguments
NoKwargs == <<>>

\* the expression `self.<attr>(*pos, **kw)` in the body of a method
CallOf(attr, pos, kw) == [kind |-> "call", attr |-> attr, pos |-> pos, kw |-> kw]

\* the expression `return <value>` that calls nothing
ReturnOf(value) == [kind |-> "return", value |-> value]

\* kw without the keywords in names
Without(kw, names) == [k \in DOMAIN kw \ names |-> kw[k]]

\* kw[name] if the keyword was passed, else the parameter's default
Keyword(kw, name, default) == IF name \in DOMAIN kw THEN kw[name] ELSE default

\* d[key] = value on a dict that has no such key yet
DictSet(d, key, value) == PyDict(Append(d.items, <<key, value>>))

\* WAHAClient.get/post/put/delete: each hands over to self.request
ClientProxy(call) ==
    CASE call.attr = "get" ->
            CallOf("request", <<"GET", call.pos[1]>>,
                   ("params" :> Keyword(call.kw, "params", PyNone))
                       @@ Without(call.kw, {"params"}))
      [] call.attr = "post" ->
            CallOf("request", <<"POST", call.pos[1]>>,
                   ("json_data" :> Keyword(call.kw, "json_data", PyNone))
                       @@ Without(call.kw, {"json_data"}))
      [] call.attr = "put" ->
            CallOf("request", <<"PUT", call.pos[1]>>,
                   ("json_data" :> Keyword(call.kw, "json_data", PyNone))
                       @@ Without(call.kw, {"json_data"}))
      [] call.attr = "delete" ->
            CallOf("request", <<"DELETE", call.pos[1]>>, call.kw)
      [] OTHER -> call

\* how WAHAClient.request(method, endpoint, params=None, json_data=None,
\* **kwargs) binds the arguments of a call
RequestArgs(call) ==
    [method |-> call.pos[1],
     endpoint |-> call.pos[2],
     params |-> Keyword(call.kw, "params", PyNone),
     json |-> Keyword(call.kw, "json_data", PyNone),
     kwargs |-> Without(call.kw, {"params", "json_data"})]

\* BaseModule.request/get/post/put/delete(*args, **kwargs): the method of the
\* same name on self.client, with the same arguments
BaseModuleProxy(call) == RequestArgs(ClientProxy(call))

\* WAHAClient.get/post/put/delete(endpoint, ...): return self.request(...)
Convenience(attr, endpoint, kw, reply) ==
    LET a == RequestArgs(ClientProxy(CallOf(attr, <<endpoint>>, kw))) IN
    Request(a.method, a.endpoint, a.params, a.json, a.kwargs, reply)

\* Python's binding of a call to a function whose parameters are all
\* required and that takes neither *args nor **kwargs: the TypeError message
\* it raises, or <<>> when the call binds
BindError(name, params, pos, kw) ==
    IF \E k \in DOMAIN kw : k \notin Range(params)
        THEN <<name, "() got an unexpected keyword argument '",
               CHOOSE k \in DOMAIN kw : k \notin Range(params), "'">>
    ELSE IF \E i \in 1..Len(pos) : i <= Len(params) /\ params[i] \in DOMAIN kw
        THEN <<name, "() got multiple values for argument">>
    ELSE IF Len(pos) > Len(params)
        THEN <<name, "() takes ", ToString(Len(params) + 1),
               " positional arguments but ", ToString(Len(pos) + 1),
               " were given">>
    ELSE IF \E i \in (Len(pos) + 1)..Len(params) : params[i] \notin DOMAIN kw
        THEN <<name, "() missing required positional argument: '",
               params[CHOOSE i \in (Len(pos) + 1)..Len(params) :
                         /\ params[i] \notin DOMAIN kw
                         /\ \A j \in (Len(pos) + 1)..(i - 1) : params[j] \in DOMAIN kw],
               "'">>
    ELSE <<>>

\* the parameters of a call that binds, by name
Bound(params, pos, kw) ==
    [p \in Range(params) |->
        IF \E i \in 1..Len(pos) : params[i] = p
        THEN pos[CHOOSE i \in 1..Len(pos) : params[i] = p]
        ELSE kw[p]]

\* ---- SessionsModule ----

Sessions_list(all_sessions) ==
    LET params == IF all_sessions
                  THEN PyDict(<<<<"all", PyBool(all_sessions)>>>>)
                  ELSE PyNone
    IN CallOf("get", <<<<"/api/sessions">>>>, "params" :> params)

Sessions_get(session_name) ==
    CallOf("request", <<"GET", <<"/api/sessions/">> \o session_name>>, NoKwargs)

Sessions_get_me(session_name) ==
    CallOf("get", <<<<"/api/sessions/">> \o session_name \o <<"/me">>>>, NoKwargs)

Sessions_get_qr(session_name, format, accept_json) ==
    LET endpoint == <<"/api/">> \o session_name \o <<"/auth/qr">>
        params == PyDict(<<<<"format", PyStr(format)>>>>)
    IN IF accept_json \/ format = <<"raw">>
       THEN CallOf("request", <<"GET", endpoint>>, "params" :> params)
       ELSE CallOf("client.request", <<"GET", endpoint>>, "params" :> params)

Sessions_get_screenshot(session_name, accept_json) ==
    LET endpoint == <<"/api/screenshot">>
        params == PyDict(<<<<"session", PyStr(session_name)>>>>)
    IN IF accept_json
       THEN CallOf("client.request", <<"GET", endpoint>>,
                   ("params" :> params) @@
                   ("headers" :> ("Accept" :> <<"application/json">>)))
       ELSE CallOf("client.request", <<"GET", endpoint>>, "params" :> params)

\* ---- MessagesModule ----

\* Messages_send_text that writes linkPreview whatever link_preview is
Messages_send_text_preview_always(session, chat_id, text, reply_to, mentions, link_preview, link_preview_high_quality) ==
    LET d0 == PyDict(<<<<"session", PyStr(session)>>,
                       <<"chatId", PyStr(chat_id)>>,
                       <<"text", PyStr(text)>>>>)
        d1 == IF Truthy(reply_to) THEN DictSet(d0, "reply_to", reply_to) ELSE d0
        d2 == IF Truthy(mentions) THEN DictSet(d1, "mentions", mentions) ELSE d1
        d3 == DictSet(d2, "linkPreview", link_preview)
        data == IF Truthy(link_preview_high_quality)
                THEN DictSet(d3, "linkPreviewHighQuality", PyBool(TRUE)) ELSE d3
    IN CallOf("post", <<<<"/api/sendText">>>>, "json_data" :> data)

Messages_send_text(session, chat_id, text, reply_to, mentions, link_preview, link_preview_high_quality) ==
    LET d0 == PyDict(<<<<"session", PyStr(session)>>,
                       <<"chatId", PyStr(chat_id)>>,
                       <<"text", PyStr(text)>>>>)
        d1 == IF Truthy(reply_to) THEN DictSet(d0, "reply_to", reply_to) ELSE d0
        d2 == IF Truthy(mentions) THEN DictSet(d1, "mentions", mentions) ELSE d1
        d3 == IF ~Truthy(link_preview)
              THEN DictSet(d2, "linkPreview", PyBool(FALSE)) ELSE d2
        data == IF Truthy(link_preview_high_quality)
                THEN DictSet(d3, "linkPreviewHighQuality", PyBool(TRUE)) ELSE d3
    IN CallOf("post", <<<<"/api/sendText">>>>, "json_data" :> data)

\* ---- GroupsModule ----

GroupsPath(session) == <<"/api/">> \o session \o <<"/groups">>

GroupPath(session, group_id) == GroupsPath(session) \o <<"/">> \o group_id

Groups_list(session) == CallOf("get", <<GroupsPath(session)>>, NoKwargs)

Groups_get_count(session) ==
    CallOf("get", <<GroupsPath(session) \o <<"/count">>>>, NoKwargs)

Groups_get(session, group_id) ==
    CallOf("request", <<"GET", GroupPath(session, group_id)>>, NoKwargs)

Groups_create(session, subject, participants) ==
    LET d0 == PyDict(<<<<"subject", PyStr(subject)>>>>)
        data == IF Truthy(participants)
                THEN DictSet(d0, "participants", participants) ELSE d0
    IN CallOf("post", <<GroupsPath(session)>>, "json_data" :> data)

Groups_leave(session, group_id) ==
    CallOf("post", <<GroupPath(session, group_id) \o <<"/leave">>>>, NoKwargs)

Groups_update_subject(session, group_id, subject) ==
    CallOf("put", <<GroupPath(session, group_id) \o <<"/subject">>>>,
           "json_data" :> PyDict(<<<<"subject", PyStr(subject)>>>>))

Groups_update_description(session, group_id, description) ==
    CallOf("put", <<GroupPath(session, group_id) \o <<"/description">>>>,
           "json_data" :> PyDict(<<<<"description", PyStr(description)>>>>))

Groups_get_invite_code(session, group_id) ==
    CallOf("get", <<GroupPath(session, group_id) \o <<"/invite-code">>>>, NoKwargs)

Groups_revoke_invite_code(session, group_id) ==
    CallOf("post", <<GroupPath(session, group_id) \o <<"/invite-code/revoke">>>>,
           NoKwargs)

Groups_get_picture(session, group_id, accept_json) ==
    LET endpoint == GroupPath(session, group_id) \o <<"/picture">> IN
    IF accept_json
    THEN CallOf("client.request", <<"GET", endpoint>>,
                "headers" :> ("Accept" :> <<"application/json">>))
    ELSE CallOf("get", <<endpoint>>, NoKwargs)

Groups_get_participants(session, group_id) ==
    CallOf("get", <<GroupPath(session, group_id) \o <<"/participants">>>>, NoKwargs)

\* add_participants, remove_participants, promote_admin and demote_admin: the
\* same body but for the last part of the path
GroupsParticipants(session, group_id, action, participants) ==
    CallOf("post", <<GroupPath(session, group_id) \o <<action>>>>,
           "json_data" :> PyDict(<<<<"participants", participants>>>>))

Groups_add_participants(session, group_id, participants) ==
    GroupsParticipants(session, group_id, "/participants/add", participants)

Groups_remove_participants(session, group_id, participants) ==
    GroupsParticipants(session, group_id, "/participants/remove", participants)

Groups_promote_admin(session, group_id, participants) ==
    GroupsParticipants(session, group_id, "/admin/promote", participants)

Groups_demote_admin(session, group_id, participants) ==
    GroupsParticipants(session, group_id, "/admin/demote", participants)

\* ---- ChannelsModule ----

ChannelsPath(session) == <<"/api/">> \o session \o <<"/channels">>

Channels_list(session) == CallOf("get", <<ChannelsPath(session)>>, NoKwargs)

Channels_get(session, channel_id) ==
    CallOf("request", <<"GET", ChannelsPath(session) \o <<"/">> \o channel_id>>,
           NoKwargs)

Channels_create(session, name, description) ==
    LET d0 == PyDict(<<<<"name", PyStr(name)>>>>)
        data == IF Truthy(description)
                THEN DictSet(d0, "description", description) ELSE d0
    IN CallOf("post", <<ChannelsPath(session)>>, "json_data" :> data)

Channels_delete(session, channel_id) ==
    CallOf("request", <<"DELETE", ChannelsPath(session) \o <<"/">> \o channel_id>>,
           NoKwargs)

Channels_get_messages(session, channel_id, limit) ==
    LET params == IF limit.py # "None"
                  THEN PyDict(<<<<"limit", limit>>>>) ELSE PyDict(<<>>)
    IN CallOf("get",
              <<<<"/api/">> \o session \o <<"/chats/">> \o channel_id \o <<"/messages">>>>,
              "params" :> (IF Truthy(params) THEN params ELSE PyNone))

\* ---- ProfileModule ----

\* builds a URL from self.client.base_url and returns it; calls nothing
Profile_get_picture_url(session) ==
    ReturnOf(PyStr(base_url \o <<"/api/">> \o session \o <<"/profile/picture">>))

\* ---- ChatsModule ----

Chats_get_picture(session, chat_id, accept_json) ==
    LET endpoint == <<"/api/">> \o session \o <<"/chats/">> \o chat_id \o <<"/picture">> IN
    IF accept_json
    THEN CallOf("client.request", <<"GET", endpoint>>,
                "headers" :> ("Accept" :> <<"application/json">>))
    ELSE CallOf("get", <<endpoint>>, NoKwargs)

\* ---- operations with optional parameters ----

Sessions_create(name, config, start) ==
    LET d0 == PyDict(<<>>)
        d1 == IF Truthy(name) THEN DictSet(d0, "name", name) ELSE d0
        d2 == IF Truthy(config) THEN DictSet(d1, "config", config) ELSE d1
        data == IF ~Truthy(start) THEN DictSet(d2, "start", PyBool(FALSE)) ELSE d2
    IN CallOf("post", <<<<"/api/sessions">>>>, "json_data" :> data)

\* Chats_list that sends limit and offset whether they are None or not
Chats_list_sends_unset(session, limit, offset) ==
    CallOf("get", <<<<"/api/">> \o session \o <<"/chats">>>>,
           "params" :> PyDict(<<<<"limit", limit>>, <<"offset", offset>>>>))

Chats_list(session, limit, offset) ==
    LET p0 == PyDict(<<>>)
        p1 == IF limit.py # "None" THEN DictSet(p0, "limit", limit) ELSE p0
        params == IF offset.py # "None" THEN DictSet(p1, "offset", offset) ELSE p1
    IN CallOf("get", <<<<"/api/">> \o session \o <<"/chats">>>>,
              "params" :> (IF Truthy(params) THEN params ELSE PyNone))

Chats_get_messages(session, chat_id, limit, download_media) ==
    LET p0 == PyDict(<<>>)
        p1 == IF limit.py # "None" THEN DictSet(p0, "limit", limit) ELSE p0
        params == IF Truthy(download_media)
                  THEN DictSet(p1, "downloadMedia", PyBool(TRUE)) ELSE p1
    IN CallOf("get",
              <<<<"/api/">> \o session \o <<"/chats/">> \o chat_id \o <<"/messages">>>>,
              "params" :> (IF Truthy(params) THEN params ELSE PyNone))

Contacts_list_all(session, limit, offset, sort_by, sort_order) ==
    LET p0 == PyDict(<<<<"session", PyStr(session)>>>>)
        p1 == IF limit.py # "None" THEN DictSet(p0, "limit", limit) ELSE p0
        p2 == IF offset.py # "None" THEN DictSet(p1, "offset", offset) ELSE p1
        p3 == IF Truthy(sort_by) THEN DictSet(p2, "sortBy", sort_by) ELSE p2
        params == IF Truthy(sort_order)
                  THEN DictSet(p3, "sortOrder", sort_order) ELSE p3
    IN CallOf("get", <<<<"/api/contacts/all">>>>, "params" :> params)

Messages_send_seen(session, chat_id, message_ids, participant) ==
    LET d0 == PyDict(<<<<"session", PyStr(session)>>, <<"chatId", PyStr(chat_id)>>>>)
        d1 == IF Truthy(message_ids)
              THEN DictSet(d0, "messageIds", message_ids) ELSE d0
        data == IF Truthy(participant)
                THEN DictSet(d1, "participant", participant) ELSE d1
    IN CallOf("post", <<<<"/api/sendSeen">>>>, "json_data" :> data)

Messages_star_message(session, chat_id, message_id, star) ==
    CallOf("put", <<<<"/api/star">>>>,
           "json_data" :> PyDict(<<<<"session", PyStr(session)>>,
                                   <<"chatId", PyStr(chat_id)>>,
                                   <<"messageId", PyStr(message_id)>>,
                                   <<"star", star>>>>))

\* ---- files sent from a path (MessagesModule.send_image/video/voice/file) ----

\* the expression `raise <error>`: the body ended in an exception
RaiseOf(error) == [kind |-> "raise", error |-> error]

\* the files on the caller's disk, by path: their bytes
Disk ==
    (<<"/tmp/", "photo", ".jpg">> :> <<255, 216, 255>>)
    @@ (<<"/tmp/", "clip">> :> <<255>>)
    @@ (<<"notes", ".xyz">> :> <<255, 216>>)
    @@ (<<"/tmp/", "Man", ".ogg">> :> <<77, 97, 110, 33>>)
    @@ (<<"empty", ".mp4">> :> <<>>)

Base64Alphabet ==
    <<"A", "B", "C", "D", "E", "F", "G", "H", "I", "J", "K", "L", "M", "N", "O", "P",
      "Q", "R", "S", "T", "U", "V", "W", "X", "Y", "Z", "a", "b", "c", "d", "e", "f",
      "g", "h", "i", "j", "k", "l", "m", "n", "o", "p", "q", "r", "s", "t", "u", "v",
      "w", "x", "y", "z", "0", "1", "2", "3", "4", "5", "6", "7", "8", "9", "+", "/">>

RECURSIVE B64Encode(_)
\* base64.b64encode(bytes).decode(): three bytes to four characters, the last
\* group padded with "="
B64Encode(bytes) ==
    LET A(n) == Base64Alphabet[n + 1] IN
    IF bytes = <<>> THEN <<>>
    ELSE IF Len(bytes) = 1 THEN
        <<A(bytes[1] \div 4), A((bytes[1] % 4) * 16), "=", "=">>
    ELSE IF Len(bytes) = 2 THEN
        <<A(bytes[1] \div 4),
          A((bytes[1] % 4) * 16 + bytes[2] \div 16),
          A((bytes[2] % 16) * 4), "=">>
    ELSE
        <<A(bytes[1] \div 4),
          A((bytes[1] % 4) * 16 + bytes[2] \div 16),
          A((bytes[2] % 16) * 4 + bytes[3] \div 64),
          A(bytes[3] % 64)>>
        \o B64Encode(SubSeq(bytes, 4, Len(bytes)))

\* mimetypes.guess_type(path)[0]: the type of the path's extension, or None;
\* types_map holds the extensions mimetypes knows, of those the paths of the
\* model end in
GuessType(path) ==
    LET types_map == (".jpg" :> "image/jpeg") @@ (".ogg" :> "audio/ogg")
                     @@ (".mp4" :> "video/mp4")
    IN IF Len(path) > 1 /\ path[Len(path)] \in DOMAIN types_map
       THEN PyStr(<<types_map[path[Len(path)]]>>)
       ELSE PyNone

\* FileEntry that never asks mimetypes
FileEntryDefaultType(file, default) ==
    IF file.py # "str" THEN [ok |-> TRUE, value |-> file]
    ELSE IF file.s \notin DOMAIN Disk
        THEN [ok |-> FALSE,
              error |-> Raises("FileNotFoundError",
                               <<"No such file or directory: ">> \o file.s)]
    ELSE [ok |-> TRUE,
          value |-> PyDict(<<<<"data", PyStr(B64Encode(Disk[file.s]))>>,
                             <<"mimetype", PyStr(default)>>,
                             <<"filename", file>>>>)]

\* `if isinstance(file, str):` open, read, encode, guess the type; a dict is
\* left as it is
FileEntry(file, default) ==
    IF file.py # "str" THEN [ok |-> TRUE, value |-> file]
    ELSE IF file.s \notin DOMAIN Disk
        THEN [ok |-> FALSE,
              error |-> Raises("FileNotFoundError",
                               <<"No such file or directory: ">> \o file.s)]
    ELSE
        LET guessed == GuessType(file.s)
            mimetype == IF Truthy(guessed) THEN guessed ELSE PyStr(default)
        IN [ok |-> TRUE,
            value |-> PyDict(<<<<"data", PyStr(B64Encode(Disk[file.s]))>>,
                               <<"mimetype", mimetype>>,
                               <<"filename", file>>>>)]

Messages_send_image(session, chat_id, file, caption) ==
    LET e == FileEntry(file, <<"image/jpeg">>) IN
    IF ~e.ok THEN RaiseOf(e.error)
    ELSE
        LET d0 == PyDict(<<<<"session", PyStr(session)>>,
                           <<"chatId", PyStr(chat_id)>>, <<"file", e.value>>>>)
            data == IF Truthy(caption) THEN DictSet(d0, "caption", caption) ELSE d0
        IN CallOf("post", <<<<"/api/sendImage">>>>, "json_data" :> data)

Messages_send_video(session, chat_id, file, caption, as_note, convert) ==
    LET e == FileEntry(file, <<"video/mp4">>) IN
    IF ~e.ok THEN RaiseOf(e.error)
    ELSE
        LET d0 == PyDict(<<<<"session", PyStr(session)>>,
                           <<"chatId", PyStr(chat_id)>>, <<"file", e.value>>>>)
            d1 == IF Truthy(caption) THEN DictSet(d0, "caption", caption) ELSE d0
            d2 == IF Truthy(as_note) THEN DictSet(d1, "asNote", PyBool(TRUE)) ELSE d1
            data == IF Truthy(convert)
                    THEN DictSet(d2, "convert", PyBool(TRUE)) ELSE d2
        IN CallOf("post", <<<<"/api/sendVideo">>>>, "json_data" :> data)

Messages_send_voice(session, chat_id, file, convert) ==
    LET e == FileEntry(file, <<"audio/ogg; codecs=opus">>) IN
    IF ~e.ok THEN RaiseOf(e.error)
    ELSE
        LET d0 == PyDict(<<<<"session", PyStr(session)>>,
                           <<"chatId", PyStr(chat_id)>>, <<"file", e.value>>>>)
            data == IF Truthy(convert)
                    THEN DictSet(d0, "convert", PyBool(TRUE)) ELSE d0
        IN CallOf("post", <<<<"/api/sendVoice">>>>, "json_data" :> data)

Messages_send_file(session, chat_id, file, caption) ==
    LET e == FileEntry(file, <<"application/octet-stream">>) IN
    IF ~e.ok THEN RaiseOf(e.error)
    ELSE
        LET d0 == PyDict(<<<<"session", PyStr(session)>>,
                           <<"chatId", PyStr(chat_id)>>, <<"file", e.value>>>>)
            data == IF Truthy(caption) THEN DictSet(d0, "caption", caption) ELSE d0
        IN CallOf("post", <<<<"/api/sendFile">>>>, "json_data" :> data)

\* ---- attribute lookup and the call ----

\* the parameters of the method `get` that a facade class defines itself;
\* on an object of such a class self.get is that method, not BaseModule.get
OwnGet ==
    [sessions |-> <<"session_name">>,
     groups |-> <<"session", "group_id">>,
     channels |-> <<"session", "channel_id">>]

OwnGetBody(module, b) ==
    CASE module = "sessions" -> Sessions_get(b.session_name)
      [] module = "groups" -> Groups_get(b.session, b.group_id)
      [] module = "channels" -> Channels_get(b.session, b.channel_id)

\* what the expression a method of `module` ends with comes to: a value, a
\* TypeError of the call, or the arguments WAHAClient.request is called with
Resolve(module, expr) ==
    IF expr.kind = "return" THEN [does |-> "return", value |-> expr.value]
    ELSE IF expr.kind = "raise" THEN [does |-> "raise", error |-> expr.error]
    ELSE IF expr.attr = "get" /\ module \in DOMAIN OwnGet THEN
        LET err == BindError("get", OwnGet[module], expr.pos, expr.kw) IN
        IF err # <<>>
        THEN [does |-> "raise", error |-> Raises("TypeError", err)]
        ELSE [does |-> "request",
              args |-> BaseModuleProxy(
                  OwnGetBody(module, Bound(OwnGet[module], expr.pos, expr.kw)))]
    ELSE [does |-> "request", args |-> BaseModuleProxy(expr)]

\* Facade that catches a failure of the transport and returns None
FacadeCatchesFailure(module, name, args, expr, reply) ==
    LET r == Resolve(module, expr)
        sent == Sent(r.args.method, r.args.endpoint, r.args.params,
                     r.args.json, r.args.kwargs)
        tried == RequestOutcome(sent, reply)
        outcome == CASE r.does = "return" -> Returns(r.value)
                     [] r.does = "raise" -> r.error
                     [] r.does = "request" ->
                            IF tried.variant = "Failure" THEN Returns(NoValue)
                            ELSE tried
    IN
    /\ ~unwinding
    /\ module \in DOMAIN facades
    /\ facades[module].client = Self
    /\ last' = [op |-> "facade", module |-> module, name |-> name,
                args |-> args,
                wire |-> IF r.does = "request" THEN Attempts(sent, reply) ELSE <<>>,
                replies |-> IF r.does = "request" THEN <<reply>> ELSE <<>>,
                outcome |-> outcome]
    /\ _session' = IF r.does = "request" THEN Pooled(_session, reply) ELSE _session
    /\ unwinding' \in IF scope = "inside" /\ outcome.variant = "Failure"
                      THEN BOOLEAN ELSE {FALSE}
    /\ UNCHANGED <<facades, base_url, api_key, timeout, scope, released, closeCalls>>

\* a call of the method `name` of client.<module> with the arguments args,
\* whose body comes to expr
Facade(module, name, args, expr, reply) ==
    LET r == Resolve(module, expr)
        sent == Sent(r.args.method, r.args.endpoint, r.args.params,
                     r.args.json, r.args.kwargs)
        outcome == CASE r.does = "return" -> Returns(r.value)
                     [] r.does = "raise" -> r.error
                     [] r.does = "request" -> RequestOutcome(sent, reply)
    IN
    /\ ~unwinding
    /\ module \in DOMAIN facades
    /\ facades[module].client = Self
    /\ last' = [op |-> "facade", module |-> module, name |-> name,
                args |-> args,
                wire |-> IF r.does = "request" THEN Attempts(sent, reply) ELSE <<>>,
                replies |-> IF r.does = "request" THEN <<reply>> ELSE <<>>,
                outcome |-> outcome]
    /\ _session' = IF r.does = "request" THEN Pooled(_session, reply) ELSE _session
    /\ unwinding' \in IF scope = "inside" /\ outcome.variant = "Failure"
                      THEN BOOLEAN ELSE {FALSE}
    /\ UNCHANGED <<facades, base_url, api_key, timeout, scope, released, closeCalls>>

-----------------------------------------------------------------------------
(* The callers and the server: the arguments and replies drawn from       *)

ConstructorArgs ==
    {DefaultArgs,
     [base_url |-> <<"http://localhost:3000", "/">>,
      api_key |-> PyStr(<<"test-key">>),
      timeout |-> PyInt(DefaultTimeout)],
     [base_url |-> <<"https://waha.example", "/", "/">>,
      api_key |-> PyStr(<<>>),
      timeout |-> PyInt(5)]}

Calls ==
    {[method |-> "GET", endpoint |-> <<"/api/sessions">>,
      params |-> PyDict(<<<<"all", PyBool(TRUE)>>>>), json |-> PyNone,
      kwargs |-> NoKwargs],
     [method |-> "POST", endpoint |-> <<"/api/sendText">>,
      params |-> PyNone,
      json |-> PyDict(<<<<"session", PyStr(<<"default">>)>>>>),
      kwargs |-> [timeout |-> PyInt(5)]],
     [method |-> "DELETE", endpoint |-> <<"/api/sessions/", "default">>,
      params |-> PyNone, json |-> PyNone, kwargs |-> NoKwargs]}

ContentTypes ==
    {<<"application/json">>,
     <<"application/json", "; charset=utf-8">>,
     <<"image/", "jpeg">>,
     <<"application/octet-stream">>,
     <<"text/html">>}

\* a reply with no Content-Type header at all, or with one of ContentTypes
ReplyHeaders ==
    {<<>>} \cup {("Content-Type" :> ct) : ct \in ContentTypes}

Bodies ==
    {<<>>,
     <<"{", "\"message\"", ":", "\"X\"", "}">>,
     <<"{", "\"a\"", ":", "1", "}">>,
     <<"{", "\"message\"", ":", "7", ",", "\"a\"", ":", "null", "}">>,
     <<"[", "\"X\"", "]">>,
     <<"{", "\"message\"", ":">>,
     <<"<html>", "Bad Gateway", "</html>">>,
     <<"\\xff\\xd8", "JFIF", "\\x00\\x89">>}

Statuses == {200, 201, 202, 204, 302, 400, 401, 404, 429, 500, 503}

\* where a followed redirect ended (<<>> when none was followed)
Elsewhere == <<"https://other.example", "/login">>

TransportFailures ==
    {[type |-> "raise", cls |-> "ConnectTimeout", text |-> <<"connect timed out">>],
     [type |-> "raise", cls |-> "ReadTimeout", text |-> <<"read timed out">>],
     [type |-> "raise", cls |-> "ConnectionError", text |-> <<"connection refused">>],
     [type |-> "raise", cls |-> "TooManyRedirects", text |-> <<"exceeded 30 redirects">>]}

ReplyOf(status, headers, content, to) ==
    [type |-> "response", status_code |-> status, headers |-> headers,
     content |-> content, redirected_to |-> to]

JsonHeaders == "Content-Type" :> <<"application/json">>

MessageX == <<"{", "\"message\"", ":", "\"X\"", "}">>

\* every reply: the domain of the classification
AllReplies ==
    {ReplyOf(st, h, b, <<>>) : st \in Statuses, h \in ReplyHeaders, b \in Bodies}
    \cup {ReplyOf(st, JsonHeaders, b, Elsewhere) :
            st \in Statuses, b \in {<<>>, MessageX}}
    \cup TransportFailures

\* the replies the life-cycle specification draws from
SomeReplies ==
    {ReplyOf(st, JsonHeaders, b, <<>>) : st \in {200, 401, 500}, b \in {<<>>, MessageX}}
    \cup TransportFailures

\* ---- the calls on the facades ----

SessionNames == {<<"default">>, <<"work">>}

GroupId == <<"1203630@g.us">>

ChannelId == <<"1203631@newsletter">>

ChatId == <<"628123@c.us">>

Participants == PyList(<<PyStr(<<"628124@c.us">>)>>)

FacadeOp(module, name, args, expr) ==
    [module |-> module, name |-> name, args |-> args, expr |-> expr]

SessionsOps ==
    {FacadeOp("sessions", "list", [all_sessions |-> a], Sessions_list(a)) :
        a \in BOOLEAN}
    \cup {FacadeOp("sessions", "get", [session_name |-> n], Sessions_get(n)) :
            n \in SessionNames}
    \cup {FacadeOp("sessions", "get_me", [session_name |-> n], Sessions_get_me(n)) :
            n \in SessionNames}
    \cup {FacadeOp("sessions", "get_qr",
                   [session_name |-> n, format |-> f, accept_json |-> j],
                   Sessions_get_qr(n, f, j)) :
            n \in SessionNames, f \in {<<"image">>, <<"raw">>}, j \in BOOLEAN}
    \cup {FacadeOp("sessions", "get_screenshot",
                   [session_name |-> n, accept_json |-> j],
                   Sessions_get_screenshot(n, j)) :
            n \in SessionNames, j \in BOOLEAN}

\* the defaults of send_text's optional parameters
SendTextDefaults ==
    [reply_to |-> PyNone, mentions |-> PyNone, link_preview |-> PyBool(TRUE),
     link_preview_high_quality |-> PyBool(FALSE)]

\* the optional parameters a caller of send_text supplies, with their values
SendTextSupplied ==
    {<<>>,
     [reply_to |-> PyStr(<<"msg-1">>)],
     [reply_to |-> PyStr(<<>>)],
     [mentions |-> PyList(<<PyStr(<<"628124@c.us">>)>>)],
     [mentions |-> PyList(<<>>)],
     [link_preview |-> PyBool(FALSE)],
     [link_preview |-> PyBool(TRUE)],
     [link_preview_high_quality |-> PyBool(TRUE)],
     [link_preview_high_quality |-> PyBool(FALSE)],
     [reply_to |-> PyStr(<<"msg-1">>),
      mentions |-> PyList(<<PyStr(<<"628124@c.us">>)>>),
      link_preview |-> PyBool(FALSE),
      link_preview_high_quality |-> PyBool(TRUE)]}

SendText(supplied) ==
    LET a == supplied @@ SendTextDefaults IN
    Messages_send_text(<<"default">>, ChatId, <<"Hello">>, a.reply_to,
                       a.mentions, a.link_preview, a.link_preview_high_quality)

MessagesOps ==
    {FacadeOp("messages", "send_text",
              [session |-> <<"default">>, chat_id |-> ChatId,
               text |-> <<"Hello">>, supplied |-> s],
              SendText(s)) : s \in SendTextSupplied}

GroupArgs == [session |-> <<"default">>, group_id |-> GroupId]

GroupsOps ==
    LET s == <<"default">>
        g == GroupId
    IN
    {FacadeOp("groups", "list", [session |-> s], Groups_list(s)),
     FacadeOp("groups", "get_count", [session |-> s], Groups_get_count(s)),
     FacadeOp("groups", "get", GroupArgs, Groups_get(s, g)),
     FacadeOp("groups", "leave", GroupArgs, Groups_leave(s, g)),
     FacadeOp("groups", "update_subject", GroupArgs,
              Groups_update_subject(s, g, <<"Team">>)),
     FacadeOp("groups", "update_description", GroupArgs,
              Groups_update_description(s, g, <<"About">>)),
     FacadeOp("groups", "get_invite_code", GroupArgs, Groups_get_invite_code(s, g)),
     FacadeOp("groups", "revoke_invite_code", GroupArgs,
              Groups_revoke_invite_code(s, g)),
     FacadeOp("groups", "get_participants", GroupArgs,
              Groups_get_participants(s, g)),
     FacadeOp("groups", "add_participants", GroupArgs,
              Groups_add_participants(s, g, Participants)),
     FacadeOp("groups", "remove_participants", GroupArgs,
              Groups_remove_participants(s, g, Participants)),
     FacadeOp("groups", "promote_admin", GroupArgs,
              Groups_promote_admin(s, g, Participants)),
     FacadeOp("groups", "demote_admin", GroupArgs,
              Groups_demote_admin(s, g, Participants))}
    \cup {FacadeOp("groups", "create", [session |-> s, participants |-> p],
                   Groups_create(s, <<"Team">>, p)) :
            p \in {PyNone, Participants}}
    \cup {FacadeOp("groups", "get_picture",
                   [session |-> s, group_id |-> g, accept_json |-> j],
                   Groups_get_picture(s, g, j)) : j \in BOOLEAN}

ChannelArgs == [session |-> <<"default">>, channel_id |-> ChannelId]

ChannelsOps ==
    LET s == <<"default">>
        c == ChannelId
    IN
    {FacadeOp("channels", "list", [session |-> s], Channels_list(s)),
     FacadeOp("channels", "get", ChannelArgs, Channels_get(s, c)),
     FacadeOp("channels", "delete", ChannelArgs, Channels_delete(s, c))}
    \cup {FacadeOp("channels", "create", [session |-> s, description |-> d],
                   Channels_create(s, <<"News">>, d)) :
            d \in {PyNone, PyStr(<<"About">>)}}
    \cup {FacadeOp("channels", "get_messages",
                   [session |-> s, channel_id |-> c, limit |-> l],
                   Channels_get_messages(s, c, l)) :
            l \in {PyNone, PyInt(1)}}

ChatsOps ==
    {FacadeOp("chats", "get_picture",
              [session |-> n, chat_id |-> ChatId, accept_json |-> j],
              Chats_get_picture(n, ChatId, j)) :
        n \in SessionNames, j \in BOOLEAN}

MessageId == <<"true_628123@c.us_AAAA">>

\* the optional parameters of an operation: their defaults in the signature,
\* the key each is sent under, and the keys of the required parameters
Optional ==
    (<<"sessions", "create">> :>
        [defaults |-> [name |-> PyNone, config |-> PyNone, start |-> PyBool(TRUE)],
         keys |-> [name |-> "name", config |-> "config", start |-> "start"],
         required |-> {}])
    @@ (<<"chats", "list">> :>
        [defaults |-> [limit |-> PyNone, offset |-> PyNone],
         keys |-> [limit |-> "limit", offset |-> "offset"],
         required |-> {}])
    @@ (<<"chats", "get_messages">> :>
        [defaults |-> [limit |-> PyNone, download_media |-> PyBool(FALSE)],
         keys |-> [limit |-> "limit", download_media |-> "downloadMedia"],
         required |-> {}])
    @@ (<<"contacts", "list_all">> :>
        [defaults |-> [limit |-> PyNone, offset |-> PyNone, sort_by |-> PyNone,
                       sort_order |-> PyNone],
         keys |-> [limit |-> "limit", offset |-> "offset", sort_by |-> "sortBy",
                   sort_order |-> "sortOrder"],
         required |-> {"session"}])
    @@ (<<"groups", "create">> :>
        [defaults |-> [participants |-> PyNone],
         keys |-> [participants |-> "participants"],
         required |-> {"subject"}])
    @@ (<<"channels", "create">> :>
        [defaults |-> [description |-> PyNone],
         keys |-> [description |-> "description"],
         required |-> {"name"}])
    @@ (<<"messages", "send_seen">> :>
        [defaults |-> [message_ids |-> PyNone, participant |-> PyNone],
         keys |-> [message_ids |-> "messageIds", participant |-> "participant"],
         required |-> {"session", "chatId"}])
    @@ (<<"messages", "star_message">> :>
        [defaults |-> [star |-> PyBool(TRUE)],
         keys |-> [star |-> "star"],
         required |-> {"session", "chatId", "messageId"}])

\* the optional parameters a caller supplies, with their values
Supplied ==
    (<<"sessions", "create">> :>
        {<<>>,
         [name |-> PyStr(<<"default">>)],
         [config |-> PyDict(<<<<"debug", PyBool(TRUE)>>>>)],
         [start |-> PyBool(FALSE)],
         [start |-> PyBool(TRUE)],
         [name |-> PyStr(<<"default">>),
          config |-> PyDict(<<<<"debug", PyBool(TRUE)>>>>),
          start |-> PyBool(FALSE)]})
    @@ (<<"chats", "list">> :>
        {<<>>, [limit |-> PyInt(1)], [offset |-> PyInt(0)],
         [limit |-> PyInt(1), offset |-> PyInt(0)]})
    @@ (<<"chats", "get_messages">> :>
        {<<>>, [limit |-> PyInt(1)], [download_media |-> PyBool(TRUE)],
         [download_media |-> PyBool(FALSE)]})
    @@ (<<"contacts", "list_all">> :>
        {<<>>, [limit |-> PyInt(1)], [sort_by |-> PyStr(<<"name">>)],
         [sort_by |-> PyStr(<<>>)],
         [limit |-> PyInt(1), offset |-> PyInt(0),
          sort_by |-> PyStr(<<"name">>), sort_order |-> PyStr(<<"asc">>)]})
    @@ (<<"groups", "create">> :> {<<>>, [participants |-> Participants]})
    @@ (<<"channels", "create">> :> {<<>>, [description |-> PyStr(<<"About">>)]})
    @@ (<<"messages", "send_seen">> :>
        {<<>>, [message_ids |-> PyList(<<PyStr(MessageId)>>)],
         [message_ids |-> PyList(<<>>)],
         [participant |-> PyStr(<<"628124@c.us">>)]})
    @@ (<<"messages", "star_message">> :>
        {<<>>, [star |-> PyBool(FALSE)], [star |-> PyBool(TRUE)]})

\* the call of an operation of Optional: the supplied parameters, the others
\* at their defaults
WithOptional(module, name, supplied) ==
    LET a == supplied @@ Optional[<<module, name>>].defaults
        s == <<"default">>
    IN CASE <<module, name>> = <<"sessions", "create">> ->
                Sessions_create(a.name, a.config, a.start)
         [] <<module, name>> = <<"chats", "list">> ->
                Chats_list(s, a.limit, a.offset)
         [] <<module, name>> = <<"chats", "get_messages">> ->
                Chats_get_messages(s, ChatId, a.limit, a.download_media)
         [] <<module, name>> = <<"contacts", "list_all">> ->
                Contacts_list_all(s, a.limit, a.offset, a.sort_by, a.sort_order)
         [] <<module, name>> = <<"groups", "create">> ->
                Groups_create(s, <<"Team">>, a.participants)
         [] <<module, name>> = <<"channels", "create">> ->
                Channels_create(s, <<"News">>, a.description)
         [] <<module, name>> = <<"messages", "send_seen">> ->
                Messages_send_seen(s, ChatId, a.message_ids, a.participant)
         [] <<module, name>> = <<"messages", "star_message">> ->
                Messages_star_message(s, ChatId, MessageId, a.star)

OptionalOps ==
    UNION {{FacadeOp(op[1], op[2], [session |-> <<"default">>, supplied |-> sup],
                     WithOptional(op[1], op[2], sup)) : sup \in Supplied[op]} :
           op \in DOMAIN Optional}

\* the `file` arguments: the paths on disk, a path that is not, and a file
\* given as structured data
FileArguments ==
    {PyStr(path) : path \in DOMAIN Disk}
    \cup {PyStr(<<"/tmp/", "gone", ".png">>),
          PyDict(<<<<"url", PyStr(<<"https://files.example/", "a", ".png">>)>>,
                   <<"mimetype", PyStr(<<"image/png">>)>>>>)}

FileOps ==
    LET s == <<"default">> IN
    {FacadeOp("messages", "send_image",
              [session |-> s, chat_id |-> ChatId, file |-> f, caption |-> c],
              Messages_send_image(s, ChatId, f, c)) :
        f \in FileArguments, c \in {PyNone, PyStr(<<"Look">>)}}
    \cup {FacadeOp("messages", "send_video",
                   [session |-> s, chat_id |-> ChatId, file |-> f, convert |-> v],
                   Messages_send_video(s, ChatId, f, PyNone, PyBool(FALSE), PyBool(v))) :
            f \in FileArguments, v \in BOOLEAN}
    \cup {FacadeOp("messages", "send_voice",
                   [session |-> s, chat_id |-> ChatId, file |-> f],
                   Messages_send_voice(s, ChatId, f, PyBool(FALSE))) :
            f \in FileArguments}
    \cup {FacadeOp("messages", "send_file",
                   [session |-> s, chat_id |-> ChatId, file |-> f],
                   Messages_send_file(s, ChatId, f, PyNone)) :
            f \in FileArguments}

\* the replies the facade specification draws from
FacadeReplies ==
    {ReplyOf(200, JsonHeaders, MessageX, <<>>),
     ReplyOf(200, "Content-Type" :> <<"image/", "jpeg">>,
             <<"\\xff\\xd8", "JFIF", "\\x00\\x89">>, <<>>),
     ReplyOf(404, JsonHeaders, <<>>, <<>>),
     [type |-> "raise", cls |-> "ConnectTimeout", text |-> <<"connect timed out">>]}

-----------------------------------------------------------------------------
(* Specifications                                                          *)

Init == \E args \in ConstructorArgs : Construct(args)

Call ==
    \E c \in Calls, reply \in SomeReplies :
        Request(c.method, c.endpoint, c.params, c.json, c.kwargs, reply)

Next == Call \/ Close \/ Enter \/ Exit

\* a client and its life cycle
Spec == Init /\ [][Next]_vars

InitDecode == Construct(DefaultArgs)

DecodeCalls == {c \in Calls : c.method \in {"GET", "POST"}}

NextDecode ==
    \E c \in DecodeCalls, reply \in AllReplies :
        Request(c.method, c.endpoint, c.params, c.json, c.kwargs, reply)

\* the classification of every reply, by a client built with the defaults
SpecDecode == InitDecode /\ [][NextDecode]_vars

InitFacade == \E args \in {DefaultArgs} : Construct(args)

SessionsCall ==
    \E op \in SessionsOps, reply \in FacadeReplies :
        Facade(op.module, op.name, op.args, op.expr, reply)

MessagesCall ==
    \E op \in MessagesOps, reply \in FacadeReplies :
        Facade(op.module, op.name, op.args, op.expr, reply)

GroupsCall ==
    \E op \in GroupsOps, reply \in FacadeReplies :
        Facade(op.module, op.name, op.args, op.expr, reply)

ChannelsCall ==
    \E op \in ChannelsOps, reply \in FacadeReplies :
        Facade(op.module, op.name, op.args, op.expr, reply)

ProfileCall ==
    \E n \in SessionNames, reply \in FacadeReplies :
        Facade("profile", "get_picture_url", [session |-> n],
               Profile_get_picture_url(n), reply)

ChatsCall ==
    \E op \in ChatsOps, reply \in FacadeReplies :
        Facade(op.module, op.name, op.args, op.expr, reply)

OptionalCall ==
    \E op \in OptionalOps, reply \in FacadeReplies :
        Facade(op.module, op.name, op.args, op.expr, reply)

FileCall ==
    \E op \in FileOps, reply \in FacadeReplies :
        Facade(op.module, op.name, op.args, op.expr, reply)

NextFacade ==
    SessionsCall \/ MessagesCall \/ GroupsCall \/ ChannelsCall \/ ProfileCall
        \/ ChatsCall \/ OptionalCall \/ FileCall

\* the resource facades of a client built with the defaults
SpecFacade == InitFacade /\ [][NextFacade]_vars

\* a call that lays its own headers over the session's
OverrideCall ==
    [method |-> "GET",
     endpoint |-> <<"/api/">> \o <<"default">> \o <<"/chats/">> \o ChatId \o <<"/picture">>,
     params |-> PyNone, json |-> PyNone,
     kwargs |-> [headers |-> ("Accept" :> <<"image/", "png">>)
                              @@ ("X-Request-Id" :> <<"r-1">>)]]

ConvenienceCalls ==
    {[attr |-> "get", endpoint |-> <<"/api/sessions">>,
      kw |-> ("params" :> PyDict(<<<<"all", PyBool(TRUE)>>>>))],
     [attr |-> "post", endpoint |-> <<"/api/sessions/", "default", "/start">>,
      kw |-> NoKwargs],
     [attr |-> "put", endpoint |-> <<"/api/star">>,
      kw |-> ("json_data" :> PyDict(<<<<"star", PyBool(TRUE)>>>>))],
     [attr |-> "delete", endpoint |-> <<"/api/sessions/", "default">>,
      kw |-> ("timeout" :> PyInt(5))]}

\* the facade calls of the whole-client specification
ClientFacadeOps ==
    ChatsOps \cup {op \in SessionsOps : op.name \in {"list", "get"}}

RequestCall ==
    \E c \in Calls \cup {OverrideCall}, reply \in FacadeReplies :
        Request(c.method, c.endpoint, c.params, c.json, c.kwargs, reply)

ConvenienceCall ==
    \E c \in ConvenienceCalls, reply \in FacadeReplies :
        Convenience(c.attr, c.endpoint, c.kw, reply)

FacadeCall ==
    \E op \in ClientFacadeOps, reply \in FacadeReplies :
        Facade(op.module, op.name, op.args, op.expr, reply)

NextClient ==
    RequestCall \/ ConvenienceCall \/ FacadeCall \/ Close \/ Enter \/ Exit

\* every way of calling a client, over its life cycle
SpecClient == Init /\ [][NextClient]_vars

-----------------------------------------------------------------------------
(* What the formulas below read off the latest call                        *)

Called == last.op = "request"

\* the transport answered the latest call with an HTTP response
Answered == Called /\ last.reply.type = "response"

Suffix(status) == <<" (Status: ", ToString(status), ")">>

\* the `message` member of a body that is a JSON object carrying one
HasMessage(content) ==
    LET d == JsonLoads(content) IN
    d.ok /\ d.val.kind = "object" /\ "message" \in DOMAIN d.val.members

MessageOf(content) == Format(JsonLoads(content).val.members["message"])

IsJsonObject(content) ==
    LET d == JsonLoads(content) IN d.ok /\ d.val.kind = "object"

\* the declared Content-Type of a reply ("" when the header is missing)
Declared(reply) ==
    IF "Content-Type" \in DOMAIN reply.headers THEN reply.headers["Content-Type"] ELSE <<>>

DeclaresJson(reply) == "application/json" \in Range(Declared(reply))

DeclaresBinary(reply) ==
    "image/" \in Range(Declared(reply))
    \/ "application/octet-stream" \in Range(Declared(reply))

Binary == <<"\\xff\\xd8", "JFIF", "\\x00\\x89">>

Html == <<"<html>", "Bad Gateway", "</html>">>

-----------------------------------------------------------------------------
(* Claims                                                                  *)

\* C1: a reply with status 401 fails as WAHAAuthenticationError and a reply
\* with status 429 fails as WAHARateLimitError, with the fixed message of the
\* kind, whatever the reply's body and Content-Type are.
C1_AuthAndRateLimit ==
    Answered =>
        /\ last.reply.status_code = 401 =>
              /\ last.outcome.variant = "Failure"
              /\ last.outcome.kind = "WAHAAuthenticationError"
              /\ last.outcome.message =
                    <<"Authentication failed. Please check your API key.">>
        /\ last.reply.status_code = 429 =>
              /\ last.outcome.variant = "Failure"
              /\ last.outcome.kind = "WAHARateLimitError"
              /\ last.outcome.message =
                    <<"Rate limit exceeded. Please try again later.">>

\* a 429 reply whose body is a JSON object with a message, declared as JSON
C1_Witness ==
    /\ Answered
    /\ last.reply.status_code = 429
    /\ last.reply.content = MessageX
    /\ DeclaresJson(last.reply)
    /\ last.outcome.kind = "WAHARateLimitError"

\* C2 as stated: a reply with status 404 fails as WAHANotFoundError and the
\* message contains the URL that was requested, base_url + path.
C2_RequestedUrlInMessage ==
    Answered /\ last.reply.status_code = 404 =>
        /\ last.outcome.variant = "Failure"
        /\ last.outcome.kind = "WAHANotFoundError"
        /\ ContainsSeq(last.outcome.message, last.sent.url)

\* C2 (amended): a reply with status 404 fails as WAHANotFoundError and the
\* message is "Resource not found: " followed by the URL of the response:
\* the URL a followed redirect ended at, and otherwise the prepared URL of
\* the request, which begins with base_url + path.
C2_ResponseUrlInMessage ==
    Answered /\ last.reply.status_code = 404 =>
        /\ last.outcome.variant = "Failure"
        /\ last.outcome.kind = "WAHANotFoundError"
        /\ Len(last.outcome.message) > 1
        /\ last.outcome.message[1] = "Resource not found: "
        /\ LET shown == Tail(last.outcome.message) IN
           IF last.reply.redirected_to # <<>>
           THEN shown = last.reply.redirected_to
           ELSE /\ Len(shown) >= Len(last.sent.url)
                /\ SubSeq(shown, 1, Len(last.sent.url)) = last.sent.url

\* a 404 that came back from the URL a redirect led to
C2_Witness ==
    /\ Answered
    /\ last.reply.status_code = 404
    /\ last.reply.redirected_to = Elsewhere
    /\ last.outcome.kind = "WAHANotFoundError"
    /\ ~ContainsSeq(last.outcome.message, last.sent.url)

\* C3: a reply with status N >= 500 fails as WAHAServerError with the message
\* "M (Status: N)", M being the `message` member when the body parses as a
\* JSON object that carries one and "Server error" in every other case.
C3_ServerErrorMessage ==
    Answered /\ last.reply.status_code >= 500 =>
        /\ last.outcome.variant = "Failure"
        /\ last.outcome.kind = "WAHAServerError"
        /\ last.outcome.message =
              (IF HasMessage(last.reply.content)
               THEN MessageOf(last.reply.content)
               ELSE <<"Server error">>) \o Suffix(last.reply.status_code)

\* a 503 whose body is not JSON: the message is the generic one
C3_Witness ==
    /\ Answered
    /\ last.reply.status_code = 503
    /\ last.reply.content = Html
    /\ last.outcome.message = <<"Server error", " (Status: ", "503", ")">>

C5_SuccessStatusSucceeds ==
    Answered /\ last.reply.status_code \in {200, 201, 204} =>
        last.outcome.variant = "Success"

TransportPrefixes == {"Request timeout: ", "Connection error: ", "Request failed: "}

\* C7: a failure of the transport (a timeout, a connection error, any other
\* RequestException) reaches the caller as a WAHAClientError whose message
\* describes it, and the error raised for a 401, 404, 429 or 5xx reply
\* reaches the caller as raised, not wrapped as a transport failure.
C7_TransportFailuresAreGeneric ==
    Called =>
        /\ last.reply.type = "raise" =>
              /\ last.outcome.variant = "Failure"
              /\ last.outcome.kind = "WAHAClientError"
              /\ Len(last.outcome.message) > 1
              /\ last.outcome.message[1] \in TransportPrefixes
              /\ Tail(last.outcome.message) = last.reply.text
        /\ last.reply.type = "response" /\
           (last.reply.status_code \in {401, 404, 429} \/ last.reply.status_code >= 500) =>
              /\ last.outcome.variant = "Failure"
              /\ last.outcome.kind =
                    (CASE last.reply.status_code = 401 -> "WAHAAuthenticationError"
                       [] last.reply.status_code = 404 -> "WAHANotFoundError"
                       [] last.reply.status_code = 429 -> "WAHARateLimitError"
                       [] OTHER -> "WAHAServerError")
              /\ last.outcome.message[1] \notin TransportPrefixes

\* a transport failure that is neither a timeout nor a connection error
C7_Witness ==
    /\ Called
    /\ last.reply.type = "raise"
    /\ last.reply.cls = "TooManyRedirects"
    /\ last.outcome = Raises("WAHAClientError",
                             <<"Request failed: ", "exceeded 30 redirects">>)

SignalledKinds ==
    {"WAHAAuthenticationError", "WAHANotFoundError", "WAHARateLimitError",
     "WAHAServerError", "WAHAClientError"}

\* the kinds of SignalledKinds an error of class k is one of, narrowest first
MostSpecific(k) ==
    {c \in SignalledKinds :
        /\ IsSubclass(k, c)
        /\ \A d \in SignalledKinds : IsSubclass(k, d) => IsSubclass(c, d)}

\* C8: every failure of a call is of one of the five signalled kinds, each a
\* specialization of WAHAClientError, and has exactly one most specific kind.
C8_OneRootKind ==
    Called /\ last.outcome.variant = "Failure" =>
        /\ last.outcome.kind \in SignalledKinds
        /\ IsSubclass(last.outcome.kind, "WAHAClientError")
        /\ MostSpecific(last.outcome.kind) = {last.outcome.kind}

\* a server error, caught by a handler of the root kind
C8_Witness ==
    /\ Answered
    /\ last.reply.status_code = 500
    /\ last.outcome.variant = "Failure"
    /\ last.outcome.kind = "WAHAServerError"
    /\ IsSubclass(last.outcome.kind, "WAHAClientError")

C10_CloseIdempotent ==
    [][closeCalls' > closeCalls =>
            /\ last'.outcome.variant = "Success"
            /\ _session'.pool = {}
            /\ _session'.headers = _session.headers
            /\ <<base_url, api_key, timeout>>' = <<base_url, api_key, timeout>>
            /\ (_session.pool = {} => _session' = _session)]_vars

\* close() called again after the scope's exit had already released the session
C10_Witness ==
    /\ last.op = "close"
    /\ scope = "exited"
    /\ closeCalls >= 3
    /\ _session.pool = {}
    /\ last.outcome.variant = "Success"

NoTrailingSlash(text) == text = <<>> \/ text[Len(text)] # "/"

\* C12: the stored base_url never ends in "/", and the URL request() hands to
\* the transport is the stored base_url followed by the path, nothing else.
C12_BaseUrlPlusPath ==
    /\ NoTrailingSlash(base_url)
    /\ Called => /\ last.sent.url = base_url \o last.endpoint
                 /\ \A i \in DOMAIN last.wire : last.wire[i].url = last.sent.url

C12_Witness ==
    /\ base_url = <<"https://waha.example">>
    /\ Called
    /\ last.sent.url = <<"https://waha.example", "/api/sessions">>

HasKey(headers) == "X-Api-Key" \in DOMAIN headers

\* C13: the session's headers hold X-Api-Key exactly when the api_key given to
\* the constructor is a non-empty string, with that key as the value, and
\* every request dispatched then carries it.
C13_ApiKeyHeader ==
    LET configured == api_key.py = "str" /\ api_key.s # <<>> IN
    /\ HasKey(_session.headers) <=> configured
    /\ configured => _session.headers["X-Api-Key"] = api_key.s
    /\ Called =>
        /\ HasKey(last.sent.headers) <=> configured
        /\ configured => last.sent.headers["X-Api-Key"] = api_key.s

C13_Witness ==
    /\ Called
    /\ api_key = PyStr(<<"test-key">>)
    /\ HasKey(last.sent.headers)
    /\ last.sent.headers["X-Api-Key"] = <<"test-key">>

-----------------------------------------------------------------------------
(* What the formulas below read off the latest call on a facade            *)

OnFacade(module, name) ==
    last.op = "facade" /\ last.module = module /\ last.name = name

\* the call dispatched exactly one request, of this method, to this path
OneRequest(method, path) ==
    /\ Len(last.wire) = 1
    /\ last.wire[1].method = method
    /\ last.wire[1].url = base_url \o path

\* the call dispatched exactly one request, to a path that begins with prefix
OneRequestUnder(prefix) ==
    LET root == base_url \o prefix IN
    /\ Len(last.wire) = 1
    /\ Len(last.wire[1].url) >= Len(root)
    /\ SubSeq(last.wire[1].url, 1, Len(root)) = root

\* the call came to what request() makes of the reply to its one request
TransportOutcome ==
    /\ Len(last.wire) = 1
    /\ last.outcome = RequestOutcome(last.wire[1], last.replies[1])

KeysOf(dict) == {dict.items[i][1] : i \in DOMAIN dict.items}

ValueAt(dict, key) ==
    dict.items[CHOOSE i \in DOMAIN dict.items : dict.items[i][1] = key][2]

RequiredKeys == {"session", "chatId", "text"}

\* the JSON key each optional parameter of send_text stands for
OptionalKey ==
    [reply_to |-> "reply_to", mentions |-> "mentions",
     link_preview |-> "linkPreview",
     link_preview_high_quality |-> "linkPreviewHighQuality"]

\* C14 as stated: send_text dispatches one POST to /api/sendText whose body
\* has the keys session, chatId, text and, of the optional keys, exactly
\* those whose parameter the caller supplied.
C14_KeysOfSuppliedParameters ==
    OnFacade("messages", "send_text") =>
        /\ OneRequest("POST", <<"/api/sendText">>)
        /\ KeysOf(last.wire[1].json) =
              RequiredKeys \cup
              {OptionalKey[p] : p \in DOMAIN last.args.supplied}

\* C14 (amended): send_text dispatches one POST to /api/sendText whose body has the
\* keys session, chatId, text, and: reply_to exactly when reply_to is a
\* non-empty string, mentions exactly when mentions is a non-empty list,
\* linkPreview (false) exactly when link_preview is false, and
\* linkPreviewHighQuality (true) exactly when link_preview_high_quality is
\* true. The values are the caller's.
C14_KeysOfEffectiveParameters ==
    OnFacade("messages", "send_text") =>
        LET a == last.args.supplied @@ SendTextDefaults
            data == last.wire[1].json
        IN
        /\ OneRequest("POST", <<"/api/sendText">>)
        /\ data.py = "dict"
        /\ Len(data.items) = Cardinality(KeysOf(data))
        /\ KeysOf(data) =
              RequiredKeys
              \cup (IF Truthy(a.reply_to) THEN {"reply_to"} ELSE {})
              \cup (IF Truthy(a.mentions) THEN {"mentions"} ELSE {})
              \cup (IF a.link_preview = PyBool(FALSE) THEN {"linkPreview"} ELSE {})
              \cup (IF a.link_preview_high_quality = PyBool(TRUE)
                    THEN {"linkPreviewHighQuality"} ELSE {})
        /\ ValueAt(data, "session") = PyStr(last.args.session)
        /\ ValueAt(data, "chatId") = PyStr(last.args.chat_id)
        /\ ValueAt(data, "text") = PyStr(last.args.text)
        /\ "reply_to" \in KeysOf(data) => ValueAt(data, "reply_to") = a.reply_to
        /\ "mentions" \in KeysOf(data) => ValueAt(data, "mentions") = a.mentions
        /\ "linkPreview" \in KeysOf(data) =>
              ValueAt(data, "linkPreview") = PyBool(FALSE)
        /\ "linkPreviewHighQuality" \in KeysOf(data) =>
              ValueAt(data, "linkPreviewHighQuality") = PyBool(TRUE)

\* link_preview=True is supplied and the body has no linkPreview key
C14_Witness ==
    /\ OnFacade("messages", "send_text")
    /\ last.args.supplied = [link_preview |-> PyBool(TRUE)]
    /\ Len(last.wire) = 1
    /\ KeysOf(last.wire[1].json) = RequiredKeys

\* C15: sessions.list() dispatches exactly one GET to /api/sessions, with the
\* query `all` only when all_sessions is set, and comes to the transport's
\* outcome for it.
C15_SessionsList ==
    OnFacade("sessions", "list") =>
        /\ OneRequest("GET", <<"/api/sessions">>)
        /\ last.args.all_sessions =>
              last.wire[1].params = PyDict(<<<<"all", PyBool(TRUE)>>>>)
        /\ ~last.args.all_sessions => last.wire[1].params = PyNone
        /\ TransportOutcome

\* C16: sessions.get_me(name) dispatches exactly one GET whose path is
\* /api/sessions/{name}/me.
C16_SessionsGetMe ==
    OnFacade("sessions", "get_me") =>
        OneRequest("GET", <<"/api/sessions/">> \o last.args.session_name \o <<"/me">>)

\* C17: every operation of the groups facade dispatches exactly one request
\* to a path under /api/{session}/groups and comes to the transport's outcome.
C17_GroupsOperations ==
    (last.op = "facade" /\ last.module = "groups") =>
        /\ OneRequestUnder(<<"/api/">> \o last.args.session \o <<"/groups">>)
        /\ TransportOutcome

\* C18: every operation of the channels facade dispatches exactly one request
\* to a path under /api/{session}/channels and comes to the transport's
\* outcome.
C18_ChannelsOperations ==
    (last.op = "facade" /\ last.module = "channels") =>
        /\ OneRequestUnder(<<"/api/">> \o last.args.session \o <<"/channels">>)
        /\ TransportOutcome

\* C19: profile.get_picture_url(session) dispatches a request to a path under
\* /api/{session}/profile and comes to the transport's outcome for it.
C19_ProfileDelegates ==
    OnFacade("profile", "get_picture_url") =>
        /\ OneRequestUnder(<<"/api/">> \o last.args.session \o <<"/profile">>)
        /\ TransportOutcome

\* the operations that take accept_json
TakesAcceptJson ==
    /\ last.op = "facade"
    /\ <<last.module, last.name>> \in
          {<<"sessions", "get_qr">>, <<"sessions", "get_screenshot">>,
           <<"chats", "get_picture">>, <<"groups", "get_picture">>}

\* C20: for get_qr, get_screenshot and the two get_picture operations the
\* dispatched request's Accept header is application/json exactly when
\* accept_json is set, so the requests of the two modes differ in Accept.
C20_AcceptFollowsFlag ==
    TakesAcceptJson =>
        /\ Len(last.wire) = 1
        /\ last.wire[1].headers["Accept"] = <<"application/json">>
              <=> last.args.accept_json

\* the latest call is one of the operations of Optional
OnOptional ==
    /\ last.op = "facade"
    /\ <<last.module, last.name>> \in DOMAIN Optional
    /\ "supplied" \in DOMAIN last.args

ItemsOf(v) == IF v.py = "dict" THEN v.items ELSE <<>>

\* the query and the JSON body of the request the call dispatched, as items
Payload == ItemsOf(last.wire[1].params) \o ItemsOf(last.wire[1].json)

\* the keys the supplied optional parameters are sent under
SuppliedKeys ==
    {Optional[<<last.module, last.name>>].keys[p] : p \in DOMAIN last.args.supplied}

\* the keys of the optional parameters whose default is not None
DefaultedKeys ==
    LET o == Optional[<<last.module, last.name>>] IN
    {o.keys[p] : p \in {q \in DOMAIN o.defaults : o.defaults[q] # PyNone}}

\* C21 as stated: of the optional keys, the dispatched query or body holds
\* only those whose parameter was supplied, and no key holds null.
C21_OnlySuppliedKeys ==
    (OnOptional /\ last.wire # <<>>) =>
        \A i \in DOMAIN Payload :
            /\ Payload[i][1] \in
                  Optional[<<last.module, last.name>>].required \cup SuppliedKeys
            /\ Payload[i][2] # PyNone

\* C21 (amended): of the optional keys, the dispatched query or body holds
\* only those whose parameter was supplied or has a default other than None
\* (star of messages.star_message, sent as true when left out), and no key
\* holds null.
C21_SuppliedOrDefaultedKeys ==
    (OnOptional /\ last.wire # <<>>) =>
        \A i \in DOMAIN Payload :
            /\ Payload[i][1] \in
                  Optional[<<last.module, last.name>>].required
                      \cup SuppliedKeys \cup DefaultedKeys
            /\ Payload[i][1] \in DefaultedKeys \ SuppliedKeys =>
                  <<last.module, last.name>> = <<"messages", "star_message">>
            /\ Payload[i][2] # PyNone

\* star_message without star: the body holds star: true
C21_Witness ==
    /\ OnFacade("messages", "star_message")
    /\ last.args.supplied = <<>>
    /\ Len(last.wire) = 1
    /\ \E i \in DOMAIN Payload : Payload[i] = <<"star", PyBool(TRUE)>>

\* C22: whenever a facade operation dispatches a request, what the caller
\* gets is what request() makes of the reply: the success value as it is,
\* the failure as it is.
C22_FacadeReturnsTransportOutcome ==
    (last.op = "facade" /\ last.wire # <<>>) =>
        /\ Len(last.wire) = 1
        /\ Len(last.replies) = 1
        /\ last.outcome = RequestOutcome(last.wire[1], last.replies[1])

C22_Witness ==
    /\ OnFacade("messages", "send_text")
    /\ Len(last.replies) = 1
    /\ last.replies[1].type = "response"
    /\ last.replies[1].status_code = 404
    /\ last.outcome.variant = "Failure"
    /\ last.outcome.kind = "WAHANotFoundError"

\* C23: a call that passes no timeout is dispatched with the client's
\* timeout, a call that passes one is dispatched with that one, and no call
\* changes the client's timeout.
C23_TimeoutPerCall ==
    [][/\ timeout' = timeout
       /\ last'.op = "request" =>
            last'.sent.timeout =
                IF "timeout" \in DOMAIN last'.kwargs
                THEN last'.kwargs.timeout ELSE timeout]_vars

C23_Witness ==
    /\ Called
    /\ "timeout" \in DOMAIN last.kwargs
    /\ timeout = PyInt(DefaultTimeout)
    /\ last.sent.timeout = PyInt(5)

\* what was given is what is stored but for "/" at the end
StrippedOf(given, stored) ==
    /\ NoTrailingSlash(stored)
    /\ Len(stored) <= Len(given)
    /\ SubSeq(given, 1, Len(stored)) = stored
    /\ \A i \in (Len(stored) + 1)..Len(given) : given[i] = "/"

FacadesBound ==
    /\ DOMAIN facades = {"sessions", "messages", "chats", "contacts", "groups",
                         "status", "profile", "channels"}
    /\ \A n \in DOMAIN facades : facades[n].client = Self

DefaultsStored ==
    last.args = DefaultArgs =>
        /\ base_url = <<"http://localhost:3000">>
        /\ api_key = PyNone
        /\ timeout = PyInt(30)

\* C24 as stated: a client constructed with no arguments has the base_url
\* http://localhost:3000, no api_key and the timeout 30; every client stores
\* the base_url, api_key and timeout it was given, and has the eight facades,
\* each bound to it.
C24_StoresWhatWasGiven ==
    last.op = "__init__" =>
        /\ DefaultsStored
        /\ base_url = last.args.base_url
        /\ api_key = last.args.api_key
        /\ timeout = last.args.timeout
        /\ FacadesBound

\* C24 (amended): as above, but the base_url stored is the one given with
\* every "/" at its end taken off.
C24_StoresStrippedBaseUrl ==
    last.op = "__init__" =>
        /\ DefaultsStored
        /\ StrippedOf(last.args.base_url, base_url)
        /\ api_key = last.args.api_key
        /\ timeout = last.args.timeout
        /\ FacadesBound

C24_Witness ==
    /\ last.op = "__init__"
    /\ last.args.base_url = <<"http://localhost:3000", "/">>
    /\ base_url = <<"http://localhost:3000">>
    /\ api_key = PyStr(<<"test-key">>)
    /\ facades["status"] = [cls |-> "StatusModule", client |-> Self]

\* the statuses _handle_response has a branch for, below 400
NamedStatuses == {401, 404, 429, 200, 201, 204}

\* C25: a response whose status is below 400 and none of 401, 404, 429, 200,
\* 201, 204 comes back as a Success holding the body as text, whatever its
\* Content-Type.
C25_OtherStatusIsRawText ==
    (Answered /\ last.reply.status_code < 400
              /\ last.reply.status_code \notin NamedStatuses) =>
        last.outcome = Returns(TextValue(Decode(last.reply.content)))

C25_Witness ==
    /\ Answered
    /\ last.reply.status_code = 202
    /\ DeclaresJson(last.reply)
    /\ last.reply.content = MessageX
    /\ last.outcome = Returns(TextValue(<<"{", "\"message\"", ":", "\"X\"", "}">>))

\* two calls in a row were answered, by replies that agree on status,
\* declared Content-Type and body
SameReplyAgain ==
    /\ Answered
    /\ last'.op = "request"
    /\ last'.reply.type = "response"
    /\ last'.reply.status_code = last.reply.status_code
    /\ Declared(last'.reply) = Declared(last.reply)
    /\ last'.reply.content = last.reply.content

\* C29 as stated: responses that agree on status, declared Content-Type and
\* body come to the same outcome, whatever the request and the calls before.
C29_OutcomeOfStatusTypeBody ==
    [][SameReplyAgain => last'.outcome = last.outcome]_vars

\* C29 (amended): responses that agree on status, declared Content-Type and
\* body, and for the status 404 on the URL of the response, come to the same
\* outcome, whatever the request and the calls before.
C29_OutcomeOfStatusTypeBodyUrl ==
    [][(/\ SameReplyAgain
        /\ last.reply.status_code = 404 =>
              Response(last'.sent, last'.reply).url
                  = Response(last.sent, last.reply).url)
       => last'.outcome = last.outcome]_vars

\* a 404 answered to a second call, on another URL than the first
C29_Witness ==
    /\ Answered
    /\ _session.pool # {}
    /\ last.reply.status_code = 404
    /\ last.sent.method = "POST"
    /\ last.outcome.message = <<"Resource not found: ", "http://localhost:3000",
                                "/api/sendText">>

\* the headers the latest call passed itself
Overrides(kwargs) == IF "headers" \in DOMAIN kwargs THEN kwargs.headers ELSE <<>>

\* C26: the session's headers hold Content-Type and Accept application/json
\* (and X-Api-Key when configured); a request carries each header the call
\* passes, with the call's value, and each other header of the session, with
\* the session's; and no call changes the session's headers.
C26_HeadersMerged ==
    [][/\ _session'.headers = _session.headers
       /\ _session.headers["Content-Type"] = <<"application/json">>
       /\ _session.headers["Accept"] = <<"application/json">>
       /\ HasKey(_session.headers) <=> Truthy(api_key)
       /\ last'.op = "request" =>
            LET over == Overrides(last'.kwargs)
                sent == last'.sent.headers
            IN /\ DOMAIN sent = DOMAIN _session.headers \cup DOMAIN over
               /\ \A h \in DOMAIN sent :
                     sent[h] = IF h \in DOMAIN over THEN over[h]
                               ELSE _session.headers[h]]_vars

C26_Witness ==
    /\ Called
    /\ api_key = PyStr(<<"test-key">>)
    /\ "headers" \in DOMAIN last.kwargs
    /\ last.sent.headers["Accept"] = <<"image/", "png">>
    /\ last.sent.headers["Content-Type"] = <<"application/json">>
    /\ last.sent.headers["X-Api-Key"] = <<"test-key">>
    /\ _session.headers["Accept"] = <<"application/json">>

\* C28: no request, convenience call, facade call, close or scope exit
\* changes base_url, api_key, timeout or the session's headers, whatever the
\* call comes to.
C28_ConfigurationFixed ==
    [][/\ base_url' = base_url
       /\ api_key' = api_key
       /\ timeout' = timeout
       /\ _session'.headers = _session.headers]_vars

C28_Witness ==
    /\ last.op = "close"
    /\ closeCalls = 2
    /\ _session.pool = {}
    /\ api_key = PyStr(<<"test-key">>)
    /\ _session.headers["X-Api-Key"] = <<"test-key">>
    /\ base_url = <<"http://localhost:3000">>
    /\ timeout = PyInt(DefaultTimeout)

\* C30: after close(), or after the `with` scope was left, a request is
\* still handed to the session, with the session's headers, and comes to what
\* the reply alone makes of it; so does a facade call.
C30_UsableAfterClose ==
    closeCalls > 0 =>
        /\ Called =>
            /\ last.wire = <<last.sent>>
            /\ \A h \in DOMAIN _session.headers \ DOMAIN Overrides(last.kwargs) :
                  last.sent.headers[h] = _session.headers[h]
            /\ last.outcome = RequestOutcome(last.sent, last.reply)
        /\ OnFacade("chats", "get_picture") =>
            /\ Len(last.wire) = 1
            /\ last.outcome = RequestOutcome(last.wire[1], last.replies[1])

C30_Witness ==
    /\ Called
    /\ scope = "exited"
    /\ closeCalls > 1
    /\ last.reply.type = "response"
    /\ last.reply.status_code = 200
    /\ last.outcome.variant = "Success"
    /\ _session.pool # {}

\* the operations that send a file, with the path each posts to and the
\* MIME type each falls back on
FileOperations ==
    [send_image |-> [path |-> <<"/api/sendImage">>, fallback |-> <<"image/jpeg">>],
     send_video |-> [path |-> <<"/api/sendVideo">>, fallback |-> <<"video/mp4">>],
     send_voice |-> [path |-> <<"/api/sendVoice">>,
                     fallback |-> <<"audio/ogg; codecs=opus">>],
     send_file |-> [path |-> <<"/api/sendFile">>,
                    fallback |-> <<"application/octet-stream">>]]

\* what base64 makes of each file of Disk, and the type of its extension
\* (<<>> where the extension tells none)
Expected ==
    (<<"/tmp/", "photo", ".jpg">> :>
        [data |-> <<"/", "9", "j", "/">>, type |-> <<"image/jpeg">>])
    @@ (<<"/tmp/", "clip">> :>
        [data |-> <<"/", "w", "=", "=">>, type |-> <<>>])
    @@ (<<"notes", ".xyz">> :>
        [data |-> <<"/", "9", "g", "=">>, type |-> <<>>])
    @@ (<<"/tmp/", "Man", ".ogg">> :>
        [data |-> <<"T", "W", "F", "u", "I", "Q", "=", "=">>,
         type |-> <<"audio/ogg">>])
    @@ (<<"empty", ".mp4">> :> [data |-> <<>>, type |-> <<"video/mp4">>])

SendsFile ==
    /\ last.op = "facade"
    /\ last.module = "messages"
    /\ last.name \in DOMAIN FileOperations

\* C27: a file sent from a path on disk goes out as one POST whose body's
\* file entry holds the base64 of the file's bytes, the type of the path's
\* extension, or the operation's fallback type where the extension tells
\* none, and the path as filename; a file given as a dict goes out as it is.
C27_FileEntry ==
    SendsFile =>
        LET file == last.args.file
            op == FileOperations[last.name]
        IN
        /\ (file.py = "str" /\ file.s \in DOMAIN Disk) =>
            /\ OneRequest("POST", op.path)
            /\ ValueAt(last.wire[1].json, "file") =
                  PyDict(<<<<"data", PyStr(Expected[file.s].data)>>,
                           <<"mimetype",
                             PyStr(IF Expected[file.s].type # <<>>
                                   THEN Expected[file.s].type ELSE op.fallback)>>,
                           <<"filename", file>>>>)
        /\ file.py = "dict" =>
            /\ OneRequest("POST", op.path)
            /\ ValueAt(last.wire[1].json, "file") = file

\* send_voice of a file without extension: the fallback type
C27_Witness ==
    /\ OnFacade("messages", "send_voice")
    /\ last.args.file = PyStr(<<"/tmp/", "clip">>)
    /\ Len(last.wire) = 1
    /\ ValueAt(last.wire[1].json, "file") =
          PyDict(<<<<"data", PyStr(<<"/", "w", "=", "=">>)>>,
                   <<"mimetype", PyStr(<<"audio/ogg; codecs=opus">>)>>,
                   <<"filename", PyStr(<<"/tmp/", "clip">>)>>>>)

====
